---- MODULE Spec2Model ----
(***************************************************************************)
(* Trade pipeline of the arbitrage bot: BalanceManager (soft locks over    *)
(* the cached balances), RiskManager (risk ledger and evaluation),         *)
(* TradeExecutionService (order placement and polling), the two            *)
(* strategies (CrossExchangeStrategy, TriangularStrategy), the handlers    *)
(* of AutoTradingService and the journal of TransactionLogger; and the     *)
(* market data path: the exchange adapters                                 *)
(* (AbstractExchangeService, BinanceService) and the cross-venue detector  *)
(* of ArbitrageService.                                                    *)
(*                                                                         *)
(* Amounts are integers (the code uses floating point numbers; the         *)
(* detector's arithmetic is done in fixed point).  One action is one       *)
(* run-to-completion stretch of JavaScript: the code between two awaits.   *)
(* Continuations of                                                        *)
(* awaits that need no I/O (ReadyPcs) interleave freely; I/O completions,  *)
(* timers, operator requests and date changes are taken when none is ready *)
(* (Quiescent).                                                            *)
(*                                                                         *)
(* Spec         two opportunities handled concurrently, every order        *)
(*              followed through placement, immediate poll, rollback and   *)
(*              wait                                                       *)
(* SpecRisk     the same handlers with the order traffic of a trade taken  *)
(*              as one step per await of the strategy, under operator      *)
(*              requests, date changes and cooldown expiry                 *)
(* FairSpecRisk SpecRisk with every task step eventually delivered         *)
(* SpecLedger   BalanceManager alone under any sequence of lockBalance,    *)
(*              unlockBalance and balance refreshes                        *)
(* SpecStop     SpecRisk started on a day that may already carry one       *)
(*              recorded losing trade                                      *)
(* SpecBook     the depth replica of one symbol of BinanceService over the *)
(*              connection of AbstractExchangeService: deltas, REST        *)
(*              snapshots, retries, a lost delta and reconnects            *)
(* SpecConn     the WebSocket connection of one adapter: opens, closes,    *)
(*              reconnect timers, disconnect and restart                   *)
(* SpecDetect   the cross-venue detector of ArbitrageService under price   *)
(*              ticks, book updates, invalidations and the clock           *)
(* SpecExpiry   the same detector across a pause of more than five         *)
(*              minutes                                                    *)
(* SpecJournal  the handlers of SpecRisk and the write queue of            *)
(*              TransactionLogger, every append succeeding or failing      *)
(* SpecThrottle the replica of SpecBook with the adapter's clock and the   *)
(*              throttle of emitOrderBookUpdate, before any reconnect      *)
(* SpecWalk     the depth walk of calculateSlippage and the detector over  *)
(*              books the trade amount does and does not exhaust           *)
(* SpecTri      the registry of TriangularBybitService under path checks,  *)
(*              reads, the cleanup timer and the clock                     *)
(* SpecStream   the replica of SpecBook on a connection that stays open:   *)
(*              deltas, a lost delta, snapshots and retries                *)
(* FairSpecStream SpecStream with deltas, retry timers and snapshot        *)
(*              responses eventually delivered                             *)
(***************************************************************************)
EXTENDS Integers, Sequences, FiniteSets, TLC

\* ---------------------------------------------------------------- bounds
MaxFree == 2           \* largest free balance a venue reports
MaxAmount == 2         \* largest amount asked of lockBalance / position size
MaxDay == 1            \* UTC date changes observed
MaxLoss == 2           \* largest loss of one completed trade
MaxId == 4             \* update ids the venue issues
MaxBuf == 2            \* buffer objects the adapter creates for the symbol
MaxFetch == 2          \* snapshot requests in flight for one buffer
MaxClose == 1          \* closes of the WebSocket
MaxDrop == 1           \* deltas lost between the venue and the adapter
MaxSock == 4           \* WebSocket objects the adapter creates
MaxNow == 1            \* clock readings after the first, TickMs apart
MaxClock == 3          \* readings of the adapter's clock after the first, ClockMs apart
MaxTriNow == 8         \* readings of the triangular clock, TriTickMs apart
MaxOpps == 6           \* opportunity ids in use at one time

\* --------------------- TradingConfig, chosen small (the values come from the
\* environment, src/config/exchange.ts; one cap stands for both kinds)
maxConcurrentTrades == 1
maxDailyTrades == 2
maxDailyLoss == 2
maxPositionSize == 2
minProfitPercent == 1

NoBalance == -1        \* getBalance(...) === null: currency not in the cache

\* the trade tasks: two opportunities are handled concurrently
Tasks == {1, 2}
Kinds == {"cross-exchange", "triangular"}
Exchanges == {"bybit", "binance"}
Keys == {"bybit:USDT", "binance:BTC"}
FreeValues == {NoBalance} \cup (0..MaxFree)
Amounts == 1..MaxAmount

\* getLockKey: `${exchange}:${currency}`
getLockKey(exchange, currency) ==
    IF exchange = "bybit" /\ currency = "USDT" THEN "bybit:USDT"
    ELSE IF exchange = "binance" /\ currency = "BTC" THEN "binance:BTC"
    ELSE "other"

KeysOfExchange(exchange) ==
    IF exchange = "bybit" THEN {"bybit:USDT"} ELSE {"binance:BTC"}

VARIABLES
    \* BalanceManager
    free,            \* balances: key -> free amount, NoBalance when absent
    locks,           \* locks: key -> Set<tradeId>
    lockAmt,         \* key -> tradeId -> amount of the successful lockBalance calls
                     \*   (the amount of the balanceLocked event) still held
    lastCall,        \* the last BalanceManager call made and what it returned
    \* RiskManager and TradingConfig
    enabled, typeEnabled, emergencyStop,
    stopEvents,      \* 'emergencyStop' events emitted since the last operator reset
    dailyTrades, dailyLoss, activeTrades, lastResetDate,
    today,           \* the UTC date the clock shows
    \* TradeExecutionService
    pendingOrders, completedOrders,
    \* AutoTradingService, TradeDecisionEngine, TransactionLogger
    processingQueue, cooling, journal,
    \* one trade task per handled opportunity
    pc, opp, status, hist, err, orders, riskCheck, leg, step, cancelSet,
    recorded, escaped,
    \* BinanceService, one symbol
    delivered,       \* last update id the depth stream has carried to the adapter
    closes, drops,   \* closes of the WebSocket and deltas lost so far
    bookState,       \* orderBookStates.get(symbol), NoState when absent
    bufferOf,        \* orderBookBuffers.get(symbol): a buffer object, 0 when absent
    made,            \* buffer objects created so far
    buffers,         \* the buffer objects, still referenced by pending calls
    firstDelta,      \* per buffer: the delta whose handleDepthUpdate awaits the
                     \*   first initializeOrderBook
    fetching,        \* per buffer: further snapshot requests in flight
    retryTimers,     \* per buffer: pending setTimeout(initializeOrderBook)
    signal,          \* what the last adapter step did and emitted
    \* AbstractExchangeService
    isConnected, reconnectAttempts,
    ws,              \* this.ws: a WebSocket object, 0 when null
    sockets,         \* the WebSocket objects created: readyState, and whether
                     \*   the adapter's listeners are still attached
    reconnectTimers, \* pending setTimeout(createWSConnection) of scheduleReconnect
    phase,           \* "new", "running" after connectWebSockets, "stopped"
                     \*   after disconnect
    streak,          \* reconnect attempts made since the last open
    \* ArbitrageService, one symbol
    now,             \* Date.now(), in steps of TickMs
    prices,          \* prices: exchange -> ExchangePrice, NoPrice when absent
    orderBooks,      \* orderBooks: exchange -> OrderBookMetrics, NoBook when absent
    opportunities,   \* opportunities: the registry, key -> ArbitrageOpportunity
    candidates,      \* what calculateOpportunity returned in the last price update
    found,           \* the 'opportunityFound' events of the last price update
    \* TransactionLogger.writeQueue; a write is named by its index in journal
    started,         \* writes whose writeTradeToFile has been entered
    settled,         \* writes whose promise has resolved
    file,            \* the lines appended to the trade file
    \* TriangularBybitService
    triNow,          \* Date.now(), in steps of TriTickMs
    triOpportunities, \* opportunities: path key -> TriangularOpportunity
    triCleanupAt,    \* when the setInterval of startCleanupInterval fires next
    triLast,         \* the last checkTriangularPath: what it met and what it did
    \* ArbitrageService.calculateSlippage
    walk,            \* the last depth walk: its arguments and its result
    \* AbstractExchangeService.emitOrderBookUpdate, one symbol
    clock,           \* Date.now() of the adapter, in ms
    lastEmit,        \* lastEmit.get(symbol), 0 when absent
    published        \* the times of the 'orderBookUpdate' events emitted so far

ledgerVars == <<free, locks, lockAmt, lastCall>>
riskVars == <<enabled, typeEnabled, emergencyStop, stopEvents, dailyTrades, dailyLoss,
              activeTrades, lastResetDate, today>>
execVars == <<pendingOrders, completedOrders>>
handlerVars == <<processingQueue, cooling, journal>>
taskVars == <<pc, opp, status, hist, err, orders, riskCheck, leg, step,
              cancelSet, recorded, escaped>>
tradeVars == <<ledgerVars, riskVars, execVars, handlerVars, taskVars>>
bookVars == <<delivered, closes, drops, bookState, bufferOf, made, buffers,
              firstDelta, fetching, retryTimers, signal>>
connVars == <<isConnected, reconnectAttempts, ws, sockets, reconnectTimers, phase,
              streak>>
detVars == <<now, prices, orderBooks, opportunities, candidates, found>>
throttleVars == <<clock, lastEmit, published>>
feedVars == <<bookVars, connVars, detVars, throttleVars>>
logVars == <<started, settled, file>>
triVars == <<triNow, triOpportunities, triCleanupAt, triLast>>
auxVars == <<walk>>
sideVars == <<logVars, triVars, auxVars>>
vars == <<tradeVars, feedVars, sideVars>>

\* ======================================================= BalanceManager

RECURSIVE SumOver(_, _)
SumOver(f, S) ==
    IF S = {} THEN 0
    ELSE LET x == CHOOSE y \in S : TRUE IN f[x] + SumOver(f, S \ {x})

\* sum of the amounts of the active locks of a key
LockedSum(la, key) == SumOver(la[key], DOMAIN la[key])

getBalance(fr, key) == IF key \in DOMAIN fr THEN fr[key] ELSE NoBalance

LocksOf(lk, key) == IF key \in DOMAIN lk THEN lk[key] ELSE {}

\* hasAvailableBalance: balance.free - locks.size * requiredAmount >= requiredAmount
hasAvailableBalance(fr, lk, key, requiredAmount) ==
    /\ getBalance(fr, key) # NoBalance
    /\ getBalance(fr, key) - Cardinality(LocksOf(lk, key)) * requiredAmount
           >= requiredAmount

\* lockBalance: the lock set after the call
LocksAfterLock(fr, lk, tradeId, key, amount) ==
    IF hasAvailableBalance(fr, lk, key, amount)
    THEN [lk EXCEPT ![key] = @ \cup {tradeId}]
    ELSE lk

AmtAfterLock(fr, lk, la, tradeId, key, amount) ==
    IF hasAvailableBalance(fr, lk, key, amount)
    THEN [la EXCEPT ![key][tradeId] = amount]
    ELSE la

\* mutant: unlock forgets to delete the trade id
LocksAfterUnlockKept(lk, tradeId, key) == lk

\* mutant: unlock drops the whole lock set of the key
LocksAfterUnlockAll(lk, tradeId, key) ==
    IF key \in DOMAIN lk THEN [lk EXCEPT ![key] = {}] ELSE lk

\* unlockBalance: locks.delete(tradeId); an emptied set is dropped from the map
LocksAfterUnlock(lk, tradeId, key) ==
    IF key \in DOMAIN lk THEN [lk EXCEPT ![key] = @ \ {tradeId}] ELSE lk

\* the amounts still held follow the lock set
AmtAfterUnlock(lk, la, tradeId, key) ==
    IF tradeId \in LocksAfterUnlock(lk, tradeId, key)[key]
    THEN la
    ELSE [la EXCEPT ![key][tradeId] = 0]

\* getAvailableAmount as the ledger contract states it: free minus the locked amounts
Available(fr, la, key) ==
    IF getBalance(fr, key) = NoBalance THEN 0 ELSE fr[key] - LockedSum(la, key)

minBalanceThreshold == 10

\* getAvailableAmount: Math.max(0, balance.free - lockedCount * minBalanceThreshold)
getAvailableAmount(fr, lk, key) ==
    IF getBalance(fr, key) = NoBalance THEN 0
    ELSE LET left == fr[key] - Cardinality(LocksOf(lk, key)) * minBalanceThreshold
         IN  IF left > 0 THEN left ELSE 0

\* updateBalanceCache(exchange, ccxtBalance): the cache of the exchange is replaced
updateBalanceCache(fr, exchange, reported) ==
    [k \in Keys |-> IF k \in KeysOfExchange(exchange) THEN reported[k] ELSE fr[k]]

Reports(exchange) == [KeysOfExchange(exchange) -> {NoBalance, MaxFree}]

NoCall == [op |-> "none"]

\* ========================================================== RiskManager

OppC1 == [id |-> "c1", kind |-> "cross-exchange", symbol |-> "BTC/USDT", size |-> 1,
          profitPercent |-> minProfitPercent]
OppC2 == [id |-> "c2", kind |-> "cross-exchange", symbol |-> "BTC/USDT",
          size |-> maxPositionSize, profitPercent |-> minProfitPercent]
OppT1 == [id |-> "t1", kind |-> "triangular", symbol |-> "BTC/USDT", size |-> 1,
          profitPercent |-> minProfitPercent]
\* blacklisted symbol, profit below the minimum, size above the maximum
OppX0 == [id |-> "x0", kind |-> "cross-exchange", symbol |-> "XRP/USDT",
          size |-> maxPositionSize + 1, profitPercent |-> minProfitPercent - 1]

\* the opportunities the detector may hand to the handler of task t
OppsOf(t) == IF t = 1 THEN {OppC1, OppT1, OppX0} ELSE {OppC2, OppT1}

NoOpp == [id |-> "none", kind |-> "none", symbol |-> "none", size |-> 0,
          profitPercent |-> 0]

blacklistedSymbols == {"XRP/USDT"}
blacklistedExchanges == {}

\* opportunity.symbol.split('/')
BaseCurrency(o) == IF o.symbol = "BTC/USDT" THEN "BTC" ELSE "XRP"
QuoteCurrency(o) == "USDT"
BuyExchange(o) == "bybit"
SellExchange(o) == "binance"
\* the quote key on the buy venue (cross) or the USDT key of the venue (triangular)
BuyKey(o) == getLockKey("bybit", "USDT")
SellKey(o) == getLockKey(SellExchange(o), BaseCurrency(o))
\* buyAmount = recommendedTradeSize; sellAmount = buyAmount / buyPrice, buyPrice = 1
BuyAmount(o) == o.size
SellAmount(o) == o.size

ReasonDisabled == "Trading is globally disabled"
ReasonEmergency == "Emergency stop is active"
ReasonTypeDisabled == "type trading is disabled"
ReasonBlacklist == "Symbol or exchange is blacklisted"
ReasonMinProfit == "Profit below minimum"
ReasonBalance == "Insufficient balance"
ReasonPosition == "Position size exceeds maximum"
ReasonConcurrent == "Maximum concurrent trades reached"
ReasonDaily == "Daily trading limits reached"

NoCheck == [phase |-> "none", reasons |-> {}, approved |-> FALSE]

checkBlacklists(o) ==
    IF o.kind = "cross-exchange"
    THEN /\ o.symbol \notin blacklistedSymbols
         /\ BuyExchange(o) \notin blacklistedExchanges
         /\ SellExchange(o) \notin blacklistedExchanges
    ELSE /\ o.symbol \notin blacklistedSymbols
         /\ "bybit" \notin blacklistedExchanges

checkMinProfit(o) == o.profitPercent >= minProfitPercent

checkBalances(fr, lk, o) ==
    IF o.kind = "cross-exchange"
    THEN /\ hasAvailableBalance(fr, lk, BuyKey(o), BuyAmount(o))
         /\ hasAvailableBalance(fr, lk, SellKey(o), SellAmount(o))
    ELSE hasAvailableBalance(fr, lk, BuyKey(o), o.size)

checkPositionSize(o) == o.size <= maxPositionSize

checkConcurrentTrades(active, kind) == active[kind] < maxConcurrentTrades

\* checkDailyLimits: the result, and whether it calls triggerEmergencyStop
checkDailyLimits(trades, loss) == trades < maxDailyTrades /\ loss < maxDailyLoss
DailyLimitsTrigger(trades, loss) == trades < maxDailyTrades /\ loss >= maxDailyLoss

\* mutant: the emergency stop is not consulted
EarlyReasonsNoStop(en, stop, tyEn, kind) ==
    IF ~en THEN {ReasonDisabled}
    ELSE IF ~tyEn[kind] THEN {ReasonTypeDisabled}
    ELSE {}

\* checkOpportunity, steps 1-3: the early returns
EarlyReasons(en, stop, tyEn, kind) ==
    IF ~en THEN {ReasonDisabled}
    ELSE IF stop THEN {ReasonEmergency}
    ELSE IF ~tyEn[kind] THEN {ReasonTypeDisabled}
    ELSE {}

\* mutant: the daily reset clears the emergency stop as well
RiskPreClearsStop(t, o) ==
    LET reset == lastResetDate # today
        early == EarlyReasons(enabled, emergencyStop, typeEnabled, o.kind)
        first == (IF checkBlacklists(o) THEN {} ELSE {ReasonBlacklist})
                 \cup (IF checkMinProfit(o) THEN {} ELSE {ReasonMinProfit})
                 \cup (IF checkBalances(free, locks, o) THEN {} ELSE {ReasonBalance})
    IN  /\ dailyTrades' = IF reset THEN 0 ELSE dailyTrades
        /\ dailyLoss' = IF reset THEN 0 ELSE dailyLoss
        /\ lastResetDate' = today
        /\ emergencyStop' = IF reset THEN FALSE ELSE emergencyStop
        /\ riskCheck' = [riskCheck EXCEPT ![t] =
              IF early # {}
              THEN [phase |-> "returned", reasons |-> early, approved |-> FALSE]
              ELSE [phase |-> "awaiting", reasons |-> first, approved |-> FALSE]]

\* mutant: resetDailyCountersIfNeeded forgets the date of the reset
RiskPreForgetsDate(t, o) ==
    LET reset == lastResetDate # today
        early == EarlyReasons(enabled, emergencyStop, typeEnabled, o.kind)
        first == (IF checkBlacklists(o) THEN {} ELSE {ReasonBlacklist})
                 \cup (IF checkMinProfit(o) THEN {} ELSE {ReasonMinProfit})
                 \cup (IF checkBalances(free, locks, o) THEN {} ELSE {ReasonBalance})
    IN  /\ dailyTrades' = IF reset THEN 0 ELSE dailyTrades
        /\ dailyLoss' = IF reset THEN 0 ELSE dailyLoss
        /\ lastResetDate' = lastResetDate
        /\ emergencyStop' = emergencyStop
        /\ riskCheck' = [riskCheck EXCEPT ![t] =
              IF early # {}
              THEN [phase |-> "returned", reasons |-> early, approved |-> FALSE]
              ELSE [phase |-> "awaiting", reasons |-> first, approved |-> FALSE]]

\* checkOpportunity up to `await this.checkBalances(...)`:
\* resetDailyCountersIfNeeded, the early returns, checks 4-6
RiskPre(t, o) ==
    LET reset == lastResetDate # today
        early == EarlyReasons(enabled, emergencyStop, typeEnabled, o.kind)
        first == (IF checkBlacklists(o) THEN {} ELSE {ReasonBlacklist})
                 \cup (IF checkMinProfit(o) THEN {} ELSE {ReasonMinProfit})
                 \cup (IF checkBalances(free, locks, o) THEN {} ELSE {ReasonBalance})
    IN  /\ dailyTrades' = IF reset THEN 0 ELSE dailyTrades
        /\ dailyLoss' = IF reset THEN 0 ELSE dailyLoss
        /\ lastResetDate' = today
        /\ emergencyStop' = emergencyStop
        /\ riskCheck' = [riskCheck EXCEPT ![t] =
              IF early # {}
              THEN [phase |-> "returned", reasons |-> early, approved |-> FALSE]
              ELSE [phase |-> "awaiting", reasons |-> first, approved |-> FALSE]]

\* checkOpportunity after the await: checks 7-9 and the verdict
RiskPost(t, o) ==
    LET more == (IF checkPositionSize(o) THEN {} ELSE {ReasonPosition})
                \cup (IF checkConcurrentTrades(activeTrades, o.kind)
                      THEN {} ELSE {ReasonConcurrent})
                \cup (IF checkDailyLimits(dailyTrades, dailyLoss)
                      THEN {} ELSE {ReasonDaily})
        all == riskCheck[t].reasons \cup more
        trigger == DailyLimitsTrigger(dailyTrades, dailyLoss)
    IN  /\ emergencyStop' = (emergencyStop \/ trigger)
        /\ stopEvents' = IF trigger THEN stopEvents + 1 ELSE stopEvents
        /\ riskCheck' = [riskCheck EXCEPT ![t] =
              [phase |-> "returned", reasons |-> all, approved |-> (all = {})]]

\* recordTrade(profitLoss), profitLoss = -loss
DailyLossAfter(loss, l) == loss + l

decrementActiveTrades(active, kind) ==
    [active EXCEPT ![kind] = IF @ - 1 > 0 THEN @ - 1 ELSE 0]

incrementActiveTrades(active, kind) == [active EXCEPT ![kind] = @ + 1]

\* ======================================================= BinanceService
\* The venue's book of the symbol after update id: the bid at 2 comes and
\* goes, the bid at 1 goes, an ask at 1 comes and goes, the bid at 1 returns.
\* The venue's book is never crossed.
TruthBids(id) ==
    LET m == id % 6
    IN  IF m = 1 THEN {1, 2} ELSE IF m \in {0, 2} THEN {1} ELSE {}

TruthAsks(id) == IF id % 6 = 4 THEN {1, 3} ELSE {3}

\* the level that update id changed: <<price, side>>
Touched(id) ==
    LET m == id % 6
    IN  IF m \in {1, 2} THEN <<2, "bid">>
        ELSE IF m \in {0, 3} THEN <<1, "bid">>
        ELSE <<1, "ask">>

\* a depthUpdate event covers the update ids U..u; data.b and data.a carry the
\* levels changed in that range with their quantity after u (TRUE: above zero)
NoDelta == [U |-> 0, u |-> 0]

DeltaBids(d) ==
    {<<Touched(i)[1], Touched(i)[1] \in TruthBids(d.u)>> :
        i \in {j \in d.U..d.u : Touched(j)[2] = "bid"}}

DeltaAsks(d) ==
    {<<Touched(i)[1], Touched(i)[1] \in TruthAsks(d.u)>> :
        i \in {j \in d.U..d.u : Touched(j)[2] = "ask"}}

\* volume === 0 ? side.delete(price) : side.set(price, volume)
ApplyLevels(side, entries) ==
    {p \in side : <<p, FALSE>> \notin entries} \cup {e[1] : e \in {x \in entries : x[2]}}

\* OrderBookState; snapshotId and applied record where the replica came from:
\* the snapshot it was built from and the deltas applied to it since
NoState == [bids |-> {}, asks |-> {}, lastUpdateId |-> -1, snapshotId |-> -1,
            applied |-> <<>>]

\* the OrderBookState built from the REST snapshot with lastUpdateId = id
SnapshotState(id) ==
    [bids |-> TruthBids(id), asks |-> TruthAsks(id), lastUpdateId |-> id,
     snapshotId |-> id, applied |-> <<>>]

\* OrderBookBuffer
NewBuffer == [events |-> <<>>, isInitialized |-> FALSE, lastUpdateId |-> 0]

\* what a handler has done so far: the replica, the buffer it works on, the
\* initializeOrderBook calls and timers it started, and what it emitted
Work(bk, buf) ==
    [book |-> bk, buf |-> buf, started |-> 0, timers |-> 0, gap |-> FALSE,
     update |-> FALSE]

\* mutant: a gap resets the buffer and no snapshot is requested
applyDepthUpdateNoRestart(w, data) ==
    IF w.book = NoState THEN w
    ELSE IF data.u <= w.buf.lastUpdateId THEN w
    ELSE IF data.U > w.buf.lastUpdateId + 1
    THEN [w EXCEPT !.buf.isInitialized = FALSE,
                   !.buf.events = <<>>,
                   !.gap = TRUE]
    ELSE [w EXCEPT !.book = [bids |-> ApplyLevels(w.book.bids, DeltaBids(data)),
                             asks |-> ApplyLevels(w.book.asks, DeltaAsks(data)),
                             lastUpdateId |-> data.u,
                             snapshotId |-> w.book.snapshotId,
                             applied |-> Append(w.book.applied, data)],
                   !.buf.lastUpdateId = data.u,
                   !.update = TRUE]

\* applyDepthUpdate(symbol, data, buffer)
applyDepthUpdate(w, data) ==
    IF w.book = NoState THEN w
    ELSE IF data.u <= w.buf.lastUpdateId THEN w
    ELSE IF data.U > w.buf.lastUpdateId + 1
    THEN \* gap: the buffer is reset and initializeOrderBook called again
         [w EXCEPT !.buf.isInitialized = FALSE,
                   !.buf.events = <<>>,
                   !.started = @ + 1,
                   !.gap = TRUE]
    ELSE [w EXCEPT !.book = [bids |-> ApplyLevels(w.book.bids, DeltaBids(data)),
                             asks |-> ApplyLevels(w.book.asks, DeltaAsks(data)),
                             lastUpdateId |-> data.u,
                             snapshotId |-> w.book.snapshotId,
                             applied |-> Append(w.book.applied, data)],
                   !.buf.lastUpdateId = data.u,
                   !.update = TRUE]

\* for (const event of buffer.events) this.applyDepthUpdate(symbol, event, buffer)
RECURSIVE ApplyEvents(_, _)
ApplyEvents(w, events) ==
    IF events = <<>> THEN w
    ELSE ApplyEvents(applyDepthUpdate(w, Head(events)), Tail(events))

\* initializeOrderBook(symbol, buffer) from the resolution of fetch on, the
\* snapshot carrying lastUpdateId = id
initializeOrderBook(bk, buf, id) ==
    LET covered == Len(buf.events) > 0 /\ id >= buf.events[1].U
        kept == IF covered THEN SelectSeq(buf.events, LAMBDA e : e.u > id)
                ELSE buf.events
        stale == /\ covered
                 /\ Len(kept) > 0
                 /\ (kept[1].U > id + 1 \/ kept[1].u < id)
    IN  IF stale
        THEN \* 'Gap in orderbook updates': retry in 1 s
             [Work(bk, [buf EXCEPT !.events = <<>>, !.isInitialized = FALSE])
                EXCEPT !.timers = 1]
        ELSE LET built == Work(SnapshotState(id),
                               [events |-> kept, isInitialized |-> TRUE,
                                lastUpdateId |-> id])
                 done == ApplyEvents(built, kept)
             IN  [done EXCEPT !.buf.events = <<>>, !.update = TRUE]

\* initializeOrderBook when fetch rejects or the response is not ok: retry in 5 s
initializeFailed(bk, buf) ==
    [Work(bk, [buf EXCEPT !.isInitialized = FALSE]) EXCEPT !.timers = 1]

\* handleDepthUpdate after `await this.initializeOrderBook(symbol, buffer)`
handleDepthUpdateResumes(w, data) ==
    IF ~w.buf.isInitialized
    THEN [w EXCEPT !.buf.events = Append(@, data)]
    ELSE applyDepthUpdate(w, data)

\* ======================================================= ArbitrageService
\* Prices are in cents, volumes and trade amounts in thousandths of a unit,
\* USD values in cents, net profit in thousandths of a cent, percentages in
\* hundredths of a percent, scores in hundredths of a point, times in ms.
TickMs == 11000
minLiquidity == 100000          \* 1000 USD
minConfidence == 6000           \* 60
minLiquidityScore == 5000       \* 50
maxSlippagePercent == 100       \* 1.0 %
orderBookMaxAge == 10000
maxInvestment == 100000         \* config.maxInvestment, 1000 USD
configMinProfitPercent == 50    \* config.minProfitPercent, 0.5 %
simpleScore == 5000             \* confidence and liquidityScore of the simple estimate
fiveMinutes == 300000

MaxOf(a, b) == IF a >= b THEN a ELSE b
MinOf(a, b) == IF a <= b THEN a ELSE b
Abs(a) == IF a >= 0 THEN a ELSE 0 - a
\* Number(x.toFixed(2)) of a score held in 1/10000 of a point
ToFixed2(x) == (x + 50) \div 100

NoPrice == [price |-> 0, bid |-> 0, ask |-> 0, timestamp |-> 0]
NoBook == [bids |-> <<>>, asks |-> <<>>, spreadPercent |-> 0, totalBidVolume |-> 0,
           totalAskVolume |-> 0, timestamp |-> 0, present |-> FALSE]
NoArb == [id |-> 0, buyExchange |-> "none", sellExchange |-> "none",
          confidence |-> 0, liquidityScore |-> 0, netProfitAfterSlippage |-> 0,
          profitPercentAfterSlippage |-> 0, timestamp |-> 0]

\* the levels of one side, best first: bids by falling, asks by rising price
RECURSIVE SortLevels(_, _)
SortLevels(levels, falling) ==
    IF levels = {} THEN <<>>
    ELSE LET best == CHOOSE l \in levels : \A m \in levels :
                         IF falling THEN m[1] <= l[1] ELSE l[1] <= m[1]
         IN  <<best>> \o SortLevels(levels \ {best}, falling)

RECURSIVE SumVolume(_)
SumVolume(side) ==
    IF side = <<>> THEN 0 ELSE Head(side)[2] + SumVolume(Tail(side))

\* stateToOrderBook(state)
stateToOrderBook(state, timestamp) ==
    LET bids == SortLevels(state.bids, TRUE)
        asks == SortLevels(state.asks, FALSE)
        bestBid == IF bids = <<>> THEN 0 ELSE bids[1][1]
        bestAsk == IF asks = <<>> THEN 0 ELSE asks[1][1]
        spread == bestAsk - bestBid
    IN  [bids |-> bids, asks |-> asks,
         \* midPrice > 0 ? (spread / midPrice) * 100 : 0
         spreadPercent |-> IF bestBid + bestAsk > 0
                           THEN (spread * 20000) \div (bestBid + bestAsk) ELSE 0,
         totalBidVolume |-> SumVolume(bids),
         totalAskVolume |-> SumVolume(asks),
         timestamp |-> timestamp, present |-> TRUE]

\* calculateFees: fee of one venue, in thousandths
ExchangeFee(exchange) ==
    IF exchange = "binance" THEN 1
    ELSE IF exchange = "coinbase" THEN 5
    ELSE 1

\* calculateSlippage(orders, amount, marketPrice)
RECURSIVE FillCost(_, _)
FillCost(side, remainingAmount) ==
    IF side = <<>> \/ remainingAmount <= 0
    THEN [totalCost |-> 0, remainingAmount |-> remainingAmount]
    ELSE LET fillAmount == MinOf(remainingAmount, Head(side)[2])
             rest == FillCost(Tail(side), remainingAmount - fillAmount)
         IN  [totalCost |-> fillAmount * Head(side)[1] + rest.totalCost,
              remainingAmount |-> rest.remainingAmount]

\* mutant: the whole amount is priced at the best level
calculateSlippageAtTop(side, amount, marketPrice) ==
    LET fill == FillCost(side, amount)
    IN  IF fill.remainingAmount > 0 \/ amount = 0
        THEN [slippage |-> 0, effectivePrice |-> 0, feasible |-> FALSE]
        ELSE [slippage |-> Abs(Head(side)[1] - marketPrice),
              effectivePrice |-> Head(side)[1],
              feasible |-> TRUE]

calculateSlippage(side, amount, marketPrice) ==
    LET fill == FillCost(side, amount)
    IN  IF fill.remainingAmount > 0 \/ amount = 0
        THEN [slippage |-> 0, effectivePrice |-> 0, feasible |-> FALSE]
        ELSE [slippage |-> Abs(fill.totalCost \div amount - marketPrice),
              effectivePrice |-> fill.totalCost \div amount,
              feasible |-> TRUE]

\* calculateAvailableLiquidity(buyOrderBook, sellOrderBook, buyPrice, sellPrice)
calculateAvailableLiquidity(buyOrderBook, sellOrderBook, buyPrice, sellPrice) ==
    MinOf((buyOrderBook.totalAskVolume * buyPrice.price) \div 1000,
          (sellOrderBook.totalBidVolume * sellPrice.price) \div 1000)

\* calculateTradeParameters(liquidity, buyPrice): tradeValueUSD and tradeAmount
calculateTradeParameters(liquidity, buyPrice) ==
    LET tradeValueUSD == MinOf(maxInvestment, liquidity \div 10)
    IN  [tradeValueUSD |-> tradeValueUSD,
         tradeAmount |-> (tradeValueUSD * 1000) \div buyPrice]

\* calculateQualityMetrics: confidence and liquidityScore
calculateQualityMetrics(buyPrice, sellPrice, buyOrderBook, sellOrderBook, buySlippage, sellSlippage, profitPercent, totalLiquidity) ==
    LET buyAge == now * TickMs - buyPrice.timestamp
        sellAge == now * TickMs - sellPrice.timestamp
        ageFactor == MaxOf(0, 10000 - (buyAge + sellAge) \div 2)
        liquidityScore == MinOf(10000, (totalLiquidity * 100) \div (minLiquidity \div 100))
        profitFactor == MinOf(10000, profitPercent * 20)
        avgSpreadPercent ==
            (buyOrderBook.spreadPercent + sellOrderBook.spreadPercent) \div 2
        spreadFactor == MaxOf(0, 10000 - avgSpreadPercent * 100)
        totalSlippagePercent ==
            ((buySlippage.slippage + sellSlippage.slippage) * 10000) \div buyPrice.price
        slippageFactor == MaxOf(0, 10000 - totalSlippagePercent * 50)
    IN  [confidence |-> ToFixed2(ageFactor * 15 + liquidityScore * 30
                                 + profitFactor * 25 + spreadFactor * 15
                                 + slippageFactor * 15),
         liquidityScore |-> liquidityScore]

\* calculateSimpleOpportunity(buyPrice, sellPrice)
calculateSimpleOpportunity(pr, bx, sx, id) ==
    LET buyPrice == pr[bx]
        sellPrice == pr[sx]
        buySlippage == IF buyPrice.ask # 0 /\ buyPrice.bid # 0
                       THEN (buyPrice.ask - buyPrice.bid) \div 2
                       ELSE buyPrice.price \div 1000
        sellSlippage == IF sellPrice.ask # 0 /\ sellPrice.bid # 0
                        THEN (sellPrice.ask - sellPrice.bid) \div 2
                        ELSE sellPrice.price \div 1000
        effectiveBuyPrice == buyPrice.price + buySlippage
        effectiveSellPrice == sellPrice.price - sellSlippage
        grossProfit == effectiveSellPrice - effectiveBuyPrice
        netProfit == grossProfit * 1000 - effectiveBuyPrice * ExchangeFee(bx)
                         - effectiveSellPrice * ExchangeFee(sx)
        profitPercent == (netProfit * 10) \div effectiveBuyPrice
    IN  IF sellPrice.price <= buyPrice.price THEN NoArb
        ELSE IF profitPercent <= 0 THEN NoArb
        ELSE [id |-> id, buyExchange |-> bx, sellExchange |-> sx,
              confidence |-> simpleScore, liquidityScore |-> simpleScore,
              netProfitAfterSlippage |-> netProfit,
              profitPercentAfterSlippage |-> profitPercent,
              timestamp |-> now * TickMs]

\* areOrderBooksStale(buyOrderBook, sellOrderBook)
areOrderBooksStale(buyOrderBook, sellOrderBook) ==
    \/ now * TickMs - buyOrderBook.timestamp > orderBookMaxAge
    \/ now * TickMs - sellOrderBook.timestamp > orderBookMaxAge

\* mutant: the age of the books is not looked at
getValidOrderBooksAnyAge(bx, sx) ==
    /\ orderBooks[bx].present
    /\ orderBooks[sx].present

\* getValidOrderBooks(buyPrice, sellPrice) # null
getValidOrderBooks(bx, sx) ==
    /\ orderBooks[bx].present
    /\ orderBooks[sx].present
    /\ ~areOrderBooksStale(orderBooks[bx], orderBooks[sx])

\* calculateOpportunity(buyPrice, sellPrice) with this.prices = pr; id: the
\* crypto.randomUUID() of the opportunity built
calculateOpportunity(pr, bx, sx, id) ==
    LET buyPrice == pr[bx]
        sellPrice == pr[sx]
        buyOrderBook == orderBooks[bx]
        sellOrderBook == orderBooks[sx]
        liquidity == calculateAvailableLiquidity(buyOrderBook, sellOrderBook,
                                                 buyPrice, sellPrice)
        tradeAmount == calculateTradeParameters(liquidity, buyPrice.price).tradeAmount
        \* calculateBothSlippages
        buySlippage == calculateSlippage(buyOrderBook.asks, tradeAmount, buyPrice.price)
        sellSlippage == calculateSlippage(sellOrderBook.bids, tradeAmount, sellPrice.price)
        totalPercent == ((buySlippage.slippage + sellSlippage.slippage) * 10000)
                            \div buyPrice.price
        \* calculateNetProfit
        grossProfit == (sellSlippage.effectivePrice - buySlippage.effectivePrice)
                           * tradeAmount
        netProfit == grossProfit - buySlippage.effectivePrice * ExchangeFee(bx)
                         - sellSlippage.effectivePrice * ExchangeFee(sx)
        investedAmount == buySlippage.effectivePrice * tradeAmount
        profitPercent == (netProfit * 100) \div (investedAmount \div 100)
        metrics == calculateQualityMetrics(buyPrice, sellPrice, buyOrderBook,
                                           sellOrderBook, buySlippage, sellSlippage,
                                           profitPercent, liquidity)
    IN  IF sellPrice.price <= buyPrice.price THEN NoArb
        ELSE IF ~getValidOrderBooks(bx, sx) THEN calculateSimpleOpportunity(pr, bx, sx, id)
        ELSE IF liquidity < minLiquidity THEN NoArb
        ELSE IF ~buySlippage.feasible \/ ~sellSlippage.feasible THEN NoArb
        ELSE IF totalPercent > maxSlippagePercent THEN NoArb
        ELSE IF profitPercent <= 0 THEN NoArb
        ELSE IF metrics.confidence < minConfidence THEN NoArb
        ELSE [id |-> id, buyExchange |-> bx, sellExchange |-> sx,
              confidence |-> metrics.confidence,
              liquidityScore |-> metrics.liquidityScore,
              netProfitAfterSlippage |-> netProfit,
              profitPercentAfterSlippage |-> profitPercent,
              timestamp |-> now * TickMs]

\* mutant: the confidence and liquidity thresholds are not looked at
isOpportunityValidAnyScore(opportunity) ==
    /\ opportunity.profitPercentAfterSlippage >= configMinProfitPercent
    /\ opportunity.netProfitAfterSlippage > 0

\* isOpportunityValid(opportunity)
isOpportunityValid(opportunity) ==
    /\ opportunity.profitPercentAfterSlippage >= configMinProfitPercent
    /\ opportunity.confidence >= minConfidence
    /\ opportunity.liquidityScore >= minLiquidityScore
    /\ opportunity.netProfitAfterSlippage > 0

\* findSimilarOpportunity(opportunity): the keys of the entries for the same
\* (symbol, buyExchange, sellExchange); the code takes the first
findSimilarOpportunity(registry, opportunity) ==
    {k \in DOMAIN registry :
        /\ registry[k].buyExchange = opportunity.buyExchange
        /\ registry[k].sellExchange = opportunity.sellExchange}

\* mutant: an entry for the same triple is replaced whatever its confidence
addOpportunityAlways(registry, opportunity) ==
    LET similar == findSimilarOpportunity(registry, opportunity)
    IN  IF similar # {}
        THEN LET existingKey == CHOOSE k \in similar : \A j \in similar : k <= j
             IN  [registry EXCEPT ![existingKey] = opportunity]
        ELSE [k \in DOMAIN registry \cup {opportunity.id} |->
                 IF k = opportunity.id THEN opportunity ELSE registry[k]]

\* addOpportunity(opportunity): the registry afterwards
addOpportunity(registry, opportunity) ==
    LET similar == findSimilarOpportunity(registry, opportunity)
    IN  IF similar # {}
        THEN LET existingKey == CHOOSE k \in similar : \A j \in similar : k <= j
             IN  IF opportunity.confidence > registry[existingKey].confidence
                 THEN [registry EXCEPT ![existingKey] = opportunity]
                 ELSE registry
        ELSE LET added == [k \in DOMAIN registry \cup {opportunity.id} |->
                              IF k = opportunity.id THEN opportunity ELSE registry[k]]
                 kept == {k \in DOMAIN added :
                             ~(added[k].timestamp < now * TickMs - fiveMinutes)}
             IN  [k \in kept |-> added[k]]

\* ids the registry refers to; randomUUID() returns one that is not among them
UsedIds(registry) == DOMAIN registry \cup {registry[k].id : k \in DOMAIN registry}
FreshId(used) == CHOOSE i \in (1..MaxOpps) \ used : \A j \in (1..MaxOpps) \ used : i <= j

NoWalk == [op |-> "none", orders |-> <<>>, amount |-> 0, marketPrice |-> 0,
           result |-> [slippage |-> 0, effectivePrice |-> 0, feasible |-> FALSE]]

InitWalk == walk = NoWalk

InitDetect ==
    /\ now = 0
    /\ prices = [x \in Exchanges |-> NoPrice]
    /\ orderBooks = [x \in Exchanges |-> NoBook]
    /\ opportunities = <<>>
    /\ candidates = <<>>
    /\ found = <<>>

\* ============================================== AbstractExchangeService
\* OkxService overrides the default of 5
maxReconnectAttempts == 2
reconnectDelay == 5000

updateThrottle == 100
ClockMs == updateThrottle \div 2
\* the reading of Date.now() the model starts at
Epoch == 10 * updateThrottle

RECURSIVE Pow2(_)
Pow2(n) == IF n <= 0 THEN 1 ELSE 2 * Pow2(n - 1)

NoSocket == [state |-> "none", listening |-> FALSE]
Sockets == 1..MaxSock
Created == Cardinality({s \in Sockets : sockets[s].state # "none"})
\* a socket whose 'message' events reach handleMessage
Receiving(s) == sockets[s].state = "open" /\ sockets[s].listening
wsOpen == \E s \in Sockets : Receiving(s)

\* what a step emitted: gap (a gap was detected), invalidate
\* (orderBookInvalidate), update (orderBookUpdate), tick (priceUpdate), lost
\* (maxReconnectAttemptsReached); scheduled: scheduleReconnect was called;
\* atCap: a close was handled with the cap of attempts already made
Quiet == [gap |-> FALSE, invalidate |-> FALSE, update |-> FALSE, tick |-> FALSE,
          lost |-> FALSE, scheduled |-> FALSE, atCap |-> FALSE]

InitConn ==
    /\ isConnected = FALSE
    /\ reconnectAttempts = 0
    /\ ws = 0
    /\ sockets = [s \in Sockets |-> NoSocket]
    /\ reconnectTimers = <<>>
    /\ phase = "new"
    /\ streak = 0

InitBook ==
    /\ delivered = 0
    /\ closes = 0
    /\ drops = 0
    /\ bookState = NoState
    /\ bufferOf = 0
    /\ made = 0
    /\ buffers = [b \in 1..MaxBuf |-> NewBuffer]
    /\ firstDelta = [b \in 1..MaxBuf |-> NoDelta]
    /\ fetching = [b \in 1..MaxBuf |-> 0]
    /\ retryTimers = [b \in 1..MaxBuf |-> 0]
    /\ signal = Quiet

\* emitOrderBookUpdate(symbol, state) when a handler has called it (called):
\* 'orderBookUpdate' with stateToOrderBook(state) is emitted unless the last
\* emit for the symbol is less than updateThrottle old.  Further calls in the
\* same handler fall within the throttle of the first
emitOrderBookUpdate(called) ==
    IF called /\ ~(clock - lastEmit < updateThrottle)
    THEN /\ published' = Append(published, clock)
         /\ lastEmit' = clock
    ELSE UNCHANGED <<lastEmit, published>>

InitThrottle ==
    /\ clock = Epoch
    /\ lastEmit = 0
    /\ published = <<>>

\* ============================================================ the tasks

Legs == 1..3
\* cross-exchange: leg 1 buys on buyExchange, leg 2 sells on sellExchange;
\* triangular: three legs on one venue
LegsOf(o) == IF o.kind = "cross-exchange" THEN {1, 2} ELSE {1, 2, 3}
Terminal == {"rejected", "failed", "partial", "rolled_back", "completed"}
\* continuations that are ready to run (awaits of settled promises)
ReadyPcs == {"dec_post", "x_pre", "x_post", "x_cont"}
\* no continuation is ready: the event loop takes the next I/O completion,
\* timer or request
Quiescent == \A t \in Tasks : pc[t] \notin ReadyPcs

InitTasks ==
    /\ pc = [t \in Tasks |-> "idle"]
    /\ opp = [t \in Tasks |-> NoOpp]
    /\ status = [t \in Tasks |-> "none"]
    /\ hist = [t \in Tasks |-> <<>>]
    /\ err = [t \in Tasks |-> "none"]
    /\ orders = [t \in Tasks |-> {}]
    /\ riskCheck = [t \in Tasks |-> NoCheck]
    /\ leg = [t \in Tasks |-> [l \in Legs |-> "none"]]
    /\ step = [t \in Tasks |-> 0]
    /\ cancelSet = [t \in Tasks |-> {}]
    /\ recorded = [t \in Tasks |-> 0]
    /\ escaped = [t \in Tasks |-> FALSE]

\* ------------------------------------------------- TriangularBybitService

triMaxAge == 30000
cleanupInterval == 10000
TriTickMs == cleanupInterval \div 2

\* the paths watched (two of this.paths) and the profits, in 0.01 %, a check
\* may compute
PathKeys == {"BTC-ETH", "BTC-SOL"}
TriProfits == {60, 80}

NoTri == [present |-> FALSE, profitPercent |-> 0, timestamp |-> 0]
NoTriCheck == [op |-> "none", path |-> "none", opportunity |-> NoTri, existing |-> NoTri,
               stored |-> FALSE]

\* addOpportunity(opportunity): the registry afterwards
addTriangularOpportunity(registry, pathKey, opportunity) ==
    LET existing == registry[pathKey]
    IN  IF existing.present /\ existing.profitPercent > opportunity.profitPercent
        THEN registry
        ELSE [registry EXCEPT ![pathKey] = opportunity]

\* cleanupStaleOpportunities() at time t
cleanupStaleOpportunities(registry, t) ==
    [k \in DOMAIN registry |->
        IF registry[k].present /\ t - registry[k].timestamp > triMaxAge
        THEN NoTri ELSE registry[k]]

\* the constructor: empty maps, startCleanupInterval()
InitTri ==
    /\ triNow = 0
    /\ triOpportunities = [k \in PathKeys |-> NoTri]
    /\ triCleanupAt = cleanupInterval
    /\ triLast = NoTriCheck

\* ------------------------------------------------------ TransactionLogger

\* private writeQueue: Promise<void> = Promise.resolve()
InitLog ==
    /\ started = {}
    /\ settled = {}
    /\ file = <<>>

\* mutant: logTrade calls writeTradeToFile without chaining it to writeQueue
writeQueueUnchained(jr, st, se) == DOMAIN jr \ st

\* logTrade: this.writeQueue = this.writeQueue.then(() => writeTradeToFile(trade));
\* the callback of a write runs once the promise of the write before it has
\* resolved
writeQueue(jr, st, se) ==
    {i \in DOMAIN jr \ st : \A j \in 1..(i - 1) : j \in se}

InitShared ==
    /\ free \in [Keys -> {NoBalance, MaxFree}]
    /\ locks = [k \in Keys |-> {}]
    /\ lockAmt = [k \in Keys |-> [t \in Tasks |-> 0]]
    /\ lastCall = NoCall
    /\ enabled = TRUE
    /\ typeEnabled \in [Kinds -> BOOLEAN]
    /\ emergencyStop = FALSE
    /\ stopEvents = 0
    /\ dailyTrades = 0
    /\ dailyLoss = 0
    /\ activeTrades = [k \in Kinds |-> 0]
    /\ lastResetDate = 0
    /\ today = 0
    /\ pendingOrders = {}
    /\ completedOrders = {}
    /\ processingQueue = {}
    /\ cooling = {}
    /\ journal = <<>>
    /\ InitBook
    /\ InitConn
    /\ InitDetect
    /\ InitLog
    /\ InitTri
    /\ InitWalk
    /\ InitThrottle

Init == InitShared /\ InitTasks

\* getCooldownKey
getCooldownKey(o) ==
    IF o.kind = "cross-exchange" THEN <<"cross", o.symbol>> ELSE <<"triangular", o.symbol>>

\* the finally block of execute(): unlock, decrementActiveTrades, then the
\* first fetchBalance is awaited
FinallyLocks(lk, t, o) ==
    IF o.kind = "cross-exchange"
    THEN LocksAfterUnlock(LocksAfterUnlock(lk, t, BuyKey(o)), t, SellKey(o))
    ELSE LocksAfterUnlock(lk, t, BuyKey(o))

FinallyAmt(lk, la, t, o) ==
    IF o.kind = "cross-exchange"
    THEN AmtAfterUnlock(LocksAfterUnlock(lk, t, BuyKey(o)),
                        AmtAfterUnlock(lk, la, t, BuyKey(o)), t, SellKey(o))
    ELSE AmtAfterUnlock(lk, la, t, BuyKey(o))

Finally(t, lk, la, active) ==
    /\ locks' = FinallyLocks(lk, t, opp[t])
    /\ lockAmt' = FinallyAmt(lk, la, t, opp[t])
    /\ activeTrades' = decrementActiveTrades(active, opp[t].kind)
    /\ pc' = [pc EXCEPT ![t] = "fin1"]

\* status, hist and err of a trade that takes the statuses of `path` in turn
Move(t, path, error) ==
    /\ status' = [status EXCEPT ![t] = path[Len(path)]]
    /\ hist' = [hist EXCEPT ![t] = @ \o path]
    /\ err' = [err EXCEPT ![t] = error]

\* mutant: the handler does not look at the processing queue
HandleAgain(t) ==
    /\ pc[t] = "idle"
    /\ \E o \in OppsOf(t) :
        IF ~enabled \/ ~typeEnabled[o.kind]
        THEN /\ pc' = [pc EXCEPT ![t] = "done"]
             /\ UNCHANGED <<opp, riskCheck, processingQueue, dailyTrades, dailyLoss,
                            lastResetDate, emergencyStop>>
        ELSE IF getCooldownKey(o) \in cooling
        THEN /\ pc' = [pc EXCEPT ![t] = "done"]
             /\ UNCHANGED <<opp, riskCheck, processingQueue, dailyTrades, dailyLoss,
                            lastResetDate, emergencyStop>>
        ELSE /\ RiskPre(t, o)
             /\ opp' = [opp EXCEPT ![t] = o]
             /\ IF riskCheck'[t].phase = "returned"
                THEN /\ pc' = [pc EXCEPT ![t] = "done"]
                     /\ UNCHANGED processingQueue
                ELSE /\ pc' = [pc EXCEPT ![t] = "dec_post"]
                     /\ processingQueue' = processingQueue \cup {o.id}
    /\ UNCHANGED <<feedVars, sideVars, ledgerVars, enabled, typeEnabled, stopEvents, activeTrades, today,
                   execVars, cooling, journal, status, hist, err, orders, leg, step,
                   cancelSet, recorded, escaped>>

\* ---------------------------------------------------------------------
\* handleCrossExchangeOpportunity / handleTriangularOpportunity up to the await
\* inside riskManager.checkOpportunity (reached through
\* decisionEngine.evaluateOpportunity)
Handle(t) ==
    /\ pc[t] = "idle"
    /\ \E o \in OppsOf(t) :
        IF ~enabled \/ ~typeEnabled[o.kind] \/ o.id \in processingQueue
        THEN /\ pc' = [pc EXCEPT ![t] = "done"]
             /\ UNCHANGED <<opp, riskCheck, processingQueue, dailyTrades, dailyLoss,
                            lastResetDate, emergencyStop>>
        ELSE IF getCooldownKey(o) \in cooling
        THEN \* 'In cooldown period': the handler returns, finally drops the id
             /\ pc' = [pc EXCEPT ![t] = "done"]
             /\ UNCHANGED <<opp, riskCheck, processingQueue, dailyTrades, dailyLoss,
                            lastResetDate, emergencyStop>>
        ELSE /\ RiskPre(t, o)
             /\ opp' = [opp EXCEPT ![t] = o]
             /\ IF riskCheck'[t].phase = "returned"
                THEN /\ pc' = [pc EXCEPT ![t] = "done"]
                     /\ UNCHANGED processingQueue
                ELSE /\ pc' = [pc EXCEPT ![t] = "dec_post"]
                     /\ processingQueue' = processingQueue \cup {o.id}
    /\ UNCHANGED <<feedVars, sideVars, ledgerVars, enabled, typeEnabled, stopEvents, activeTrades, today,
                   execVars, cooling, journal, status, hist, err, orders, leg, step,
                   cancelSet, recorded, escaped>>

\* the decision's risk check returns; when approved the handler calls
\* strategy.execute(), which builds the attempt and awaits captureTradeState
DecPost(t) ==
    /\ pc[t] = "dec_post"
    /\ RiskPost(t, opp[t])
    /\ IF riskCheck'[t].approved
       THEN /\ pc' = [pc EXCEPT ![t] = "x_pre"]
            /\ Move(t, <<"validating">>, "none")
            /\ UNCHANGED processingQueue
       ELSE /\ pc' = [pc EXCEPT ![t] = "done"]
            /\ processingQueue' = processingQueue \ {opp[t].id}
            /\ UNCHANGED <<status, hist, err>>
    /\ UNCHANGED <<feedVars, sideVars, ledgerVars, enabled, typeEnabled, dailyTrades, dailyLoss,
                   activeTrades, lastResetDate, today, execVars, cooling, journal, opp,
                   orders, leg, step, cancelSet, recorded, escaped>>

\* execute(): riskManager.checkOpportunity up to its await
ExecPre(t) ==
    /\ pc[t] = "x_pre"
    /\ RiskPre(t, opp[t])
    /\ pc' = [pc EXCEPT ![t] = IF riskCheck'[t].phase = "returned" THEN "x_cont"
                                ELSE "x_post"]
    /\ UNCHANGED <<feedVars, sideVars, ledgerVars, enabled, typeEnabled, stopEvents, activeTrades, today,
                   execVars, handlerVars, opp, status, hist, err, orders, leg, step,
                   cancelSet, recorded, escaped>>

\* execute(): riskManager.checkOpportunity after its await
ExecPost(t) ==
    /\ pc[t] = "x_post"
    /\ RiskPost(t, opp[t])
    /\ pc' = [pc EXCEPT ![t] = "x_cont"]
    /\ UNCHANGED <<feedVars, sideVars, ledgerVars, enabled, typeEnabled, dailyTrades, dailyLoss,
                   activeTrades, lastResetDate, today, execVars, handlerVars, opp,
                   status, hist, err, orders, leg, step, cancelSet, recorded, escaped>>

\* execute() resumes with the verdict: REJECTED, or APPROVED, the locks,
\* incrementActiveTrades, EXECUTING and the submission of the first order(s)
ExecCont(t) ==
    LET o == opp[t]
        cross == o.kind = "cross-exchange"
        lk1 == LocksAfterLock(free, locks, t, BuyKey(o), BuyAmount(o))
        la1 == AmtAfterLock(free, locks, lockAmt, t, BuyKey(o), BuyAmount(o))
        buyLocked == hasAvailableBalance(free, locks, BuyKey(o), BuyAmount(o))
        lk2 == IF cross THEN LocksAfterLock(free, lk1, t, SellKey(o), SellAmount(o))
               ELSE lk1
        la2 == IF cross THEN AmtAfterLock(free, lk1, la1, t, SellKey(o), SellAmount(o))
               ELSE la1
        sellLocked == ~cross \/ hasAvailableBalance(free, lk1, SellKey(o), SellAmount(o))
    IN
    /\ pc[t] = "x_cont"
    /\ IF ~riskCheck[t].approved
       THEN /\ Move(t, <<"rejected">>, "risk")
            /\ Finally(t, locks, lockAmt, activeTrades)
            /\ UNCHANGED <<leg, step>>
       ELSE IF ~(buyLocked /\ sellLocked)
       THEN /\ Move(t, <<"approved", "failed">>, "Failed to lock balances")
            /\ Finally(t, lk2, la2, activeTrades)
            /\ UNCHANGED <<leg, step>>
       ELSE /\ Move(t, <<"approved", "executing">>, "none")
            /\ locks' = lk2
            /\ lockAmt' = la2
            /\ activeTrades' = incrementActiveTrades(activeTrades, o.kind)
            /\ pc' = [pc EXCEPT ![t] = IF cross THEN "x_exec" ELSE "t_exec"]
            /\ leg' = [leg EXCEPT ![t] =
                  [l \in Legs |-> IF l = 1 \/ (cross /\ l = 2) THEN "placing" ELSE "none"]]
            /\ step' = [step EXCEPT ![t] = 1]
    /\ riskCheck' = [riskCheck EXCEPT ![t] = NoCheck]
    /\ UNCHANGED <<feedVars, sideVars, free, lastCall, enabled, typeEnabled, emergencyStop, stopEvents, dailyTrades,
                   dailyLoss, lastResetDate, today, execVars, handlerVars, opp, orders,
                   cancelSet, recorded, escaped>>

\* ------------------------------------------------- TradeExecutionService

Order(t, l) == <<t, l>>
IsCross(t) == opp[t].kind = "cross-exchange"
\* the strategy is awaiting executeOrder(s) / waitForOrderCompletion of the trade
Executing(t) == pc[t] \in {"x_exec", "t_exec"}
Monitoring(t) == pc[t] \in {"x_mon", "t_exec"}

\* the trade is not touched by this step
Stay ==
    UNCHANGED <<status, hist, err, locks, lockAmt, activeTrades, pc, dailyTrades,
                dailyLoss, recorded>>

\* mutant: the catch block records the failed trade in the risk ledger
FailRecorded(t, path, error) ==
    /\ Move(t, path, error)
    /\ Finally(t, locks, lockAmt, activeTrades)
    /\ dailyTrades' = dailyTrades + 1
    /\ recorded' = [recorded EXCEPT ![t] = @ + 1]
    /\ UNCHANGED dailyLoss

\* catch (error) { status = FAILED; error = message } finally { ... }
Fail(t, path, error) ==
    /\ Move(t, path, error)
    /\ Finally(t, locks, lockAmt, activeTrades)
    /\ UNCHANGED <<dailyTrades, dailyLoss, recorded>>

\* calculateProfit, COMPLETED, riskManager.recordTrade(netProfit), finally { ... }
Complete(t, loss) ==
    /\ Move(t, <<"completed">>, "none")
    /\ dailyTrades' = dailyTrades + 1
    /\ dailyLoss' = DailyLossAfter(dailyLoss, loss)
    /\ recorded' = [recorded EXCEPT ![t] = @ + 1]
    /\ Finally(t, locks, lockAmt, activeTrades)

\* checkOrderStatus: what a fetchOrder result does to the two order maps
\* ("canceled" stands for canceled and rejected)
PendingAfter(pend, o, r) == IF r \in {"closed", "canceled"} THEN pend \ {o} ELSE pend
CompletedAfter(comp, o, r) == IF r = "closed" THEN comp \cup {o} ELSE comp

\* checkOrderStatus: `Order ${orderId} not found in pending orders`
NotPending(pend, o) == o \notin pend

\* executeOrder settles: createMarketOrder answered and, for a placed order,
\* pendingOrders.set and the immediate checkOrderStatus.
\*   r = "placeFail": createMarketOrder threw, "pollFail": the fetchOrder threw,
\*   otherwise the status fetchOrder reported.
\* Cross-exchange (executeOrders): Promise.all rejects at the first rejection
\* and cancelPendingOrders walks every pending order of the requests'
\* exchanges; when the last order resolves the strategy sets
\* tradeAttempt.orders and MONITORING and starts waitForOrderCompletion for
\* both, whose checkOrderStatus throws for an order not in pendingOrders.
\* Triangular (executeSequentially): the order is waited for at once.
Executed(t, l) ==
    /\ Quiescent
    /\ leg[t][l] = "placing"
    /\ \E r \in {"placeFail", "pollFail", "open", "closed", "canceled"} :
        LET o == Order(t, l)
            placed == IF r = "placeFail" THEN pendingOrders ELSE pendingOrders \cup {o}
            pend == PendingAfter(placed, o, r)
            failed == r \in {"placeFail", "pollFail"}
            missing == {m \in {1, 2} : NotPending(pend, Order(t, m))}
        IN
        /\ completedOrders' = CompletedAfter(completedOrders, o, r)
        /\ UNCHANGED step
        /\ IF ~Executing(t)
           THEN \* nobody awaits this order any more
                /\ pendingOrders' = pend
                /\ leg' = [leg EXCEPT ![t][l] = "settled"]
                /\ Stay /\ UNCHANGED <<orders, cancelSet>>
           ELSE IF failed /\ IsCross(t)
           THEN /\ pendingOrders' = pend
                /\ leg' = [leg EXCEPT ![t] = [m \in Legs |->
                      IF m = l \/ @[m] = "placed" THEN "settled" ELSE @[m]]]
                /\ UNCHANGED orders
                /\ IF pend = {}
                   THEN Fail(t, <<"failed">>, "order placement failed")
                        /\ UNCHANGED cancelSet
                   ELSE /\ pc' = [pc EXCEPT ![t] = "x_cancel"]
                        /\ cancelSet' = [cancelSet EXCEPT ![t] = pend]
                        /\ UNCHANGED <<status, hist, err, locks, lockAmt, activeTrades,
                                       dailyTrades, dailyLoss, recorded>>
           ELSE IF failed
           THEN /\ pendingOrders' = pend
                /\ leg' = [leg EXCEPT ![t][l] = "settled"]
                /\ Fail(t, <<"failed">>, "Triangular execution failed at step")
                /\ UNCHANGED <<orders, cancelSet>>
           ELSE IF IsCross(t) /\ leg[t][3 - l] # "placed"
           THEN /\ pendingOrders' = pend
                /\ leg' = [leg EXCEPT ![t][l] = "placed"]
                /\ Stay /\ UNCHANGED <<orders, cancelSet>>
           ELSE IF IsCross(t)
           THEN /\ pendingOrders' = pend
                /\ orders' = [orders EXCEPT ![t] = {1, 2}]
                /\ leg' = [leg EXCEPT ![t] = [m \in Legs |->
                      IF m = 3 THEN "none"
                      ELSE IF m \in missing THEN "settled" ELSE "waiting"]]
                /\ UNCHANGED cancelSet
                /\ IF missing = {}
                   THEN /\ Move(t, <<"monitoring">>, "none")
                        /\ pc' = [pc EXCEPT ![t] = "x_mon"]
                        /\ UNCHANGED <<locks, lockAmt, activeTrades, dailyTrades,
                                       dailyLoss, recorded>>
                   ELSE Fail(t, <<"monitoring", "failed">>,
                             "Order not found in pending orders")
           ELSE /\ pendingOrders' = pend
                /\ UNCHANGED <<orders, cancelSet>>
                /\ IF ~NotPending(pend, o)
                   THEN leg' = [leg EXCEPT ![t][l] = "waiting"] /\ Stay
                   ELSE /\ leg' = [leg EXCEPT ![t][l] = "settled"]
                        /\ Fail(t, <<"failed">>, "Triangular execution failed at step")
    /\ UNCHANGED <<feedVars, sideVars, free, lastCall, enabled, typeEnabled, emergencyStop, stopEvents, lastResetDate,
                   today, handlerVars, opp, riskCheck, escaped>>

\* the cancelOrder calls of the rollback settle (S: the ones that succeeded);
\* executeOrders rethrows and execute() ends FAILED
CancelDone(t) ==
    /\ Quiescent
    /\ pc[t] = "x_cancel"
    /\ \E S \in SUBSET cancelSet[t] : pendingOrders' = pendingOrders \ S
    /\ cancelSet' = [cancelSet EXCEPT ![t] = {}]
    /\ Fail(t, <<"failed">>, "order placement failed")
    /\ UNCHANGED <<feedVars, sideVars, free, lastCall, enabled, typeEnabled, emergencyStop, stopEvents, lastResetDate,
                   today, completedOrders, handlerVars, opp, orders, riskCheck, leg,
                   step, escaped>>

\* waitForOrderCompletion: a poll reports closed
WaitClosed(t, l) ==
    /\ Quiescent
    /\ leg[t][l] = "waiting"
    /\ pendingOrders' = pendingOrders \ {Order(t, l)}
    /\ completedOrders' = completedOrders \cup {Order(t, l)}
    /\ UNCHANGED cancelSet
    /\ IF ~Monitoring(t)
       THEN /\ leg' = [leg EXCEPT ![t][l] = "settled"]
            /\ Stay /\ UNCHANGED <<orders, step>>
       ELSE IF IsCross(t)
       THEN /\ UNCHANGED <<orders, step>>
            /\ IF leg[t][3 - l] = "closed"
               THEN /\ leg' = [leg EXCEPT ![t][l] = "settled", ![t][3 - l] = "settled"]
                    /\ \E loss \in 0..MaxLoss : Complete(t, loss)
               ELSE /\ leg' = [leg EXCEPT ![t][l] = "closed"]
                    /\ Stay
       ELSE IF step[t] < 3
            THEN /\ leg' = [leg EXCEPT ![t][l] = "settled", ![t][l + 1] = "placing"]
                 /\ step' = [step EXCEPT ![t] = @ + 1]
                 /\ UNCHANGED orders
                 /\ Stay
            ELSE /\ leg' = [leg EXCEPT ![t][l] = "settled"]
                 /\ orders' = [orders EXCEPT ![t] = {1, 2, 3}]
                 /\ UNCHANGED step
                 /\ \E loss \in 0..MaxLoss : Complete(t, loss)
    /\ UNCHANGED <<feedVars, sideVars, free, lastCall, enabled, typeEnabled, emergencyStop, stopEvents, lastResetDate,
                   today, handlerVars, opp, riskCheck, escaped>>

\* waitForOrderCompletion throws: the order was canceled or rejected (why =
\* "canceled"), fetchOrder threw ("error"), the order was no longer in
\* pendingOrders when the loop came round ("lost"), or the 30 s ran out
\* ("timeout")
WaitFail(t, l) ==
    /\ Quiescent
    /\ leg[t][l] = "waiting"
    /\ \E why \in {"canceled", "error", "lost", "timeout"} :
        /\ why = "lost" => NotPending(pendingOrders, Order(t, l))
        /\ pendingOrders' = IF why = "canceled" THEN pendingOrders \ {Order(t, l)}
                            ELSE pendingOrders
        /\ IF Monitoring(t)
           THEN /\ leg' = [leg EXCEPT ![t] = [m \in Legs |->
                      IF m = l \/ @[m] = "closed" THEN "settled" ELSE @[m]]]
                /\ Fail(t, <<"failed">>,
                        IF why = "timeout" THEN "Order timeout" ELSE "Order wait failed")
           ELSE /\ leg' = [leg EXCEPT ![t][l] = "settled"]
                /\ Stay
    /\ UNCHANGED <<feedVars, sideVars, free, lastCall, enabled, typeEnabled, emergencyStop, stopEvents, lastResetDate,
                   today, completedOrders, handlerVars, opp, orders, riskCheck, step,
                   cancelSet, escaped>>

\* ------------------------------------- the end of execute() and the handler

\* the exchange whose balance the finally block is fetching
FetchExchange(t) ==
    IF pc[t] = "fin1" THEN BuyExchange(opp[t]) ELSE SellExchange(opp[t])

LastFetch(t) == pc[t] = "fin2" \/ ~IsCross(t)

\* transactionLogger.logTrade(tradeAttempt)
JournalAfter(jr, t, st, er) == Append(jr, [id |-> t, status |-> st, error |-> er])

\* a fetchBalance of the finally block resolves: updateBalanceCache; after the
\* last one execute() returns the attempt and the handler logs it, updates the
\* cooldown and leaves the processing queue
FetchOk(t) ==
    /\ Quiescent
    /\ pc[t] \in {"fin1", "fin2"}
    /\ \E rep \in Reports(FetchExchange(t)) :
         free' = updateBalanceCache(free, FetchExchange(t), rep)
    /\ IF LastFetch(t)
       THEN /\ pc' = [pc EXCEPT ![t] = "done"]
            /\ journal' = JournalAfter(journal, t, status[t], err[t])
            /\ cooling' = cooling \cup {getCooldownKey(opp[t])}
            /\ processingQueue' = processingQueue \ {opp[t].id}
       ELSE /\ pc' = [pc EXCEPT ![t] = "fin2"]
            /\ UNCHANGED <<journal, cooling, processingQueue>>
    /\ UNCHANGED <<feedVars, sideVars, locks, lockAmt, lastCall, riskVars, execVars, opp, status, hist,
                   err, orders, riskCheck, leg, step, cancelSet, recorded, escaped>>

\* a fetchBalance of the finally block throws: the exception replaces the
\* return value of execute(); the handler catches it, emits tradeError and
\* leaves the processing queue
FetchFail(t) ==
    /\ Quiescent
    /\ pc[t] \in {"fin1", "fin2"}
    /\ pc' = [pc EXCEPT ![t] = "done"]
    /\ escaped' = [escaped EXCEPT ![t] = TRUE]
    /\ processingQueue' = processingQueue \ {opp[t].id}
    /\ UNCHANGED <<feedVars, sideVars, ledgerVars, riskVars, execVars, cooling, journal, opp, status, hist,
                   err, orders, riskCheck, leg, step, cancelSet, recorded>>

\* ------------------------------------------------- the journal on disk

\* writeTradeToFile up to `await fs.appendFile(...)`
writeTradeToFile ==
    /\ \E i \in writeQueue(journal, started, settled) : started' = started \cup {i}
    /\ UNCHANGED <<tradeVars, feedVars, triVars, auxVars, settled, file>>

\* fs.appendFile resolves: the line is in the file
AppendDone ==
    /\ \E i \in started \ settled :
         /\ file' = Append(file, journal[i])
         /\ settled' = settled \cup {i}
    /\ UNCHANGED <<tradeVars, feedVars, triVars, auxVars, started>>

\* fs.appendFile rejects: the catch block logs the error, the promise of the
\* write resolves all the same
AppendFails ==
    /\ \E i \in started \ settled : settled' = settled \cup {i}
    /\ UNCHANGED <<tradeVars, feedVars, triVars, auxVars, started, file>>

\* ------------------------------------------------------- the environment

\* the UTC date changes
NewDay ==
    /\ Quiescent
    /\ today < MaxDay
    /\ today' = today + 1
    /\ UNCHANGED <<feedVars, sideVars, ledgerVars, enabled, typeEnabled, emergencyStop, stopEvents, dailyTrades,
                   dailyLoss, activeTrades, lastResetDate, execVars, handlerVars,
                   taskVars>>

\* enableTrading / disableTrading (POST /trading/enable|disable)
SetTrading ==
    /\ Quiescent
    /\ enabled' = ~enabled
    /\ UNCHANGED <<feedVars, sideVars, ledgerVars, typeEnabled, emergencyStop, stopEvents, dailyTrades, dailyLoss,
                   activeTrades, lastResetDate, today, execVars, handlerVars, taskVars>>

\* disableEmergencyStop: the operator reset
disableEmergencyStop ==
    /\ Quiescent
    /\ emergencyStop
    /\ emergencyStop' = FALSE
    /\ stopEvents' = 0
    /\ UNCHANGED <<feedVars, sideVars, ledgerVars, enabled, typeEnabled, dailyTrades, dailyLoss,
                   activeTrades, lastResetDate, today, execVars, handlerVars, taskVars>>

\* cooldownPeriod (5 s) has passed since updateCooldown stamped the key
CooldownElapsed ==
    /\ Quiescent
    /\ \E k \in cooling : cooling' = cooling \ {k}
    /\ UNCHANGED <<feedVars, sideVars, ledgerVars, riskVars, execVars, processingQueue, journal, taskVars>>

TaskStep(t) ==
    \/ DecPost(t) \/ ExecPre(t) \/ ExecPost(t) \/ ExecCont(t)
    \/ \E l \in Legs : Executed(t, l) \/ WaitClosed(t, l) \/ WaitFail(t, l)
    \/ CancelDone(t) \/ FetchOk(t) \/ FetchFail(t)

\* The trade pipeline: two opportunities handled concurrently, every order and
\* balance request answered by the venue in any of the ways the code tells apart.
Next ==
    \/ \E t \in Tasks : Handle(t)
    \/ \E t \in Tasks : DecPost(t)
    \/ \E t \in Tasks : ExecPre(t)
    \/ \E t \in Tasks : ExecPost(t)
    \/ \E t \in Tasks : ExecCont(t)
    \/ \E t \in Tasks, l \in Legs : Executed(t, l)
    \/ \E t \in Tasks, l \in Legs : WaitClosed(t, l)
    \/ \E t \in Tasks, l \in Legs : WaitFail(t, l)
    \/ \E t \in Tasks : CancelDone(t)
    \/ \E t \in Tasks : FetchOk(t)
    \/ \E t \in Tasks : FetchFail(t)

Spec == Init /\ [][Next]_vars

\* ------------------------------- the risk ledger under operator and clock

\* triggerEmergencyStop called from outside checkDailyLimits (it is public)
triggerEmergencyStop ==
    /\ Quiescent
    /\ ~emergencyStop
    /\ emergencyStop' = TRUE
    /\ stopEvents' = stopEvents + 1
    /\ UNCHANGED <<feedVars, sideVars, ledgerVars, enabled, typeEnabled, dailyTrades, dailyLoss,
                   activeTrades, lastResetDate, today, execVars, handlerVars, taskVars>>

\* execute() from EXECUTING on with the order traffic taken as one step per
\* await of the strategy: executeOrders resolves (MONITORING) or rejects
\* (FAILED); the waits resolve (COMPLETED, recordTrade) or one rejects
\* (FAILED).  The order maps are not followed here.
OrdersSettle(t) ==
    /\ Quiescent
    /\ pc[t] \in {"x_exec", "x_mon", "t_exec"}
    /\ leg' = [leg EXCEPT ![t] = [l \in Legs |-> IF @[l] = "none" THEN "none" ELSE "settled"]]
    /\ \/ /\ pc[t] = "x_exec"
          /\ Move(t, <<"monitoring">>, "none")
          /\ pc' = [pc EXCEPT ![t] = "x_mon"]
          /\ orders' = [orders EXCEPT ![t] = {1, 2}]
          /\ UNCHANGED <<locks, lockAmt, activeTrades, dailyTrades, dailyLoss, recorded>>
       \/ /\ pc[t] \in {"x_mon", "t_exec"}
          /\ orders' = [orders EXCEPT ![t] = LegsOf(opp[t])]
          /\ \E loss \in 0..MaxLoss : Complete(t, loss)
       \/ /\ Fail(t, <<"failed">>, "order failed")
          /\ UNCHANGED orders
    /\ UNCHANGED <<feedVars, sideVars, free, lastCall, enabled, typeEnabled, emergencyStop, stopEvents, lastResetDate,
                   today, execVars, handlerVars, opp, riskCheck, step, cancelSet, escaped>>

TaskStepRisk(t) ==
    \/ DecPost(t) \/ ExecPre(t) \/ ExecPost(t) \/ ExecCont(t)
    \/ OrdersSettle(t) \/ FetchOk(t) \/ FetchFail(t)

InitRisk ==
    /\ Init
    /\ typeEnabled = [k \in Kinds |-> TRUE]

NextRisk ==
    \/ \E t \in Tasks : Handle(t)
    \/ \E t \in Tasks : DecPost(t)
    \/ \E t \in Tasks : ExecPre(t)
    \/ \E t \in Tasks : ExecPost(t)
    \/ \E t \in Tasks : ExecCont(t)
    \/ \E t \in Tasks : OrdersSettle(t)
    \/ \E t \in Tasks : FetchOk(t)
    \/ \E t \in Tasks : FetchFail(t)
    \/ NewDay
    \/ SetTrading
    \/ triggerEmergencyStop
    \/ disableEmergencyStop
    \/ CooldownElapsed

\* The risk ledger and the handlers under operator requests and date changes
SpecRisk == InitRisk /\ [][NextRisk]_vars

\* every pending continuation, I/O completion and timer of a task is
\* eventually delivered
FairSpecRisk == SpecRisk /\ \A t \in Tasks : WF_vars(TaskStepRisk(t))

InitJournal ==
    /\ Init
    /\ free = [k \in Keys |-> MaxFree]
    /\ typeEnabled = [k \in Kinds |-> TRUE]

NextJournal ==
    \/ \E t \in Tasks : Handle(t)
    \/ \E t \in Tasks : DecPost(t)
    \/ \E t \in Tasks : ExecPre(t)
    \/ \E t \in Tasks : ExecPost(t)
    \/ \E t \in Tasks : ExecCont(t)
    \/ \E t \in Tasks : OrdersSettle(t)
    \/ \E t \in Tasks : FetchOk(t)
    \/ \E t \in Tasks : FetchFail(t)
    \/ writeTradeToFile
    \/ AppendDone
    \/ AppendFails

\* The handlers and the journal they write: trades complete concurrently and
\* the file system answers each append in either way
SpecJournal == InitJournal /\ [][NextJournal]_vars

\* The same handlers met part-way through a UTC day: the constructor's
\* resetDailyCounters is behind, and earlier trades of the day may already
\* have been recorded (recordTrade counts the trade and adds its loss)
InitStop ==
    /\ InitTasks
    /\ free \in [Keys -> {NoBalance, MaxFree}]
    /\ locks = [k \in Keys |-> {}]
    /\ lockAmt = [k \in Keys |-> [t \in Tasks |-> 0]]
    /\ lastCall = NoCall
    /\ enabled = TRUE
    /\ typeEnabled = [k \in Kinds |-> TRUE]
    /\ emergencyStop = FALSE
    /\ stopEvents = 0
    /\ dailyTrades \in {0, 1}
    /\ dailyLoss = IF dailyTrades = 0 THEN 0 ELSE maxDailyLoss
    /\ activeTrades = [k \in Kinds |-> 0]
    /\ lastResetDate = 0
    /\ today = 0
    /\ pendingOrders = {}
    /\ completedOrders = {}
    /\ processingQueue = {}
    /\ cooling = {}
    /\ journal = <<>>
    /\ InitBook
    /\ InitConn
    /\ InitDetect
    /\ InitLog
    /\ InitTri
    /\ InitWalk
    /\ InitThrottle

SpecStop == InitStop /\ [][NextRisk]_vars

\* ------------------------------------------- the balance ledger on its own

\* what a venue may report for the currencies of an exchange
LedgerReports(exchange) == [KeysOfExchange(exchange) -> FreeValues]

\* lockBalance(tradeId, exchange, currency, amount), called as the strategies
\* call it: a trade locks a key once
lockBalance(tradeId, key, amount) ==
    /\ tradeId \notin LocksOf(locks, key)
    /\ locks' = LocksAfterLock(free, locks, tradeId, key, amount)
    /\ lockAmt' = AmtAfterLock(free, locks, lockAmt, tradeId, key, amount)
    /\ lastCall' = [op |-> "lock", tradeId |-> tradeId, key |-> key, amount |-> amount,
                    available |-> Available(free, lockAmt, key),
                    result |-> hasAvailableBalance(free, locks, key, amount),
                    recorded |-> tradeId \in LocksOf(locks', key)]
    /\ UNCHANGED <<feedVars, sideVars, free, riskVars, execVars, handlerVars, taskVars>>

\* unlockBalance(tradeId, exchange, currency)
unlockBalance(tradeId, key) ==
    /\ locks' = LocksAfterUnlock(locks, tradeId, key)
    /\ lockAmt' = AmtAfterUnlock(locks, lockAmt, tradeId, key)
    /\ lastCall' = [op |-> "unlock", tradeId |-> tradeId, key |-> key]
    /\ UNCHANGED <<feedVars, sideVars, free, riskVars, execVars, handlerVars, taskVars>>

\* fetchBalance(exchange) resolves (periodic update or post-trade refresh):
\* updateBalanceCache
refreshBalance(exchange) ==
    /\ \E rep \in LedgerReports(exchange) : free' = updateBalanceCache(free, exchange, rep)
    /\ lastCall' = [op |-> "refresh", exchange |-> exchange]
    /\ UNCHANGED <<feedVars, sideVars, locks, lockAmt, riskVars, execVars, handlerVars, taskVars>>

InitLedger ==
    /\ InitTasks
    /\ InitShared

NextLedger ==
    \/ \E tradeId \in Tasks, key \in Keys, amount \in Amounts :
         lockBalance(tradeId, key, amount)
    \/ \E tradeId \in Tasks, key \in Keys : unlockBalance(tradeId, key)
    \/ \E exchange \in Exchanges : refreshBalance(exchange)

\* BalanceManager under any interleaving of lockBalance, unlockBalance and
\* balance refreshes
SpecLedger == InitLedger /\ [][NextLedger]_vars

\* ------------------------------------ the depth replica of BinanceService

\* lastUpdateId values a REST snapshot may carry: anything the venue has
\* issued, up to one update ahead of what the stream has delivered
SnapshotIds == {id \in 0..MaxId : id <= delivered + 1}

\* the handler's work takes effect on the adapter
Commit(w, b, landed) ==
    /\ bookState' = w.book
    /\ buffers' = [buffers EXCEPT ![b] = w.buf]
    /\ fetching' = [fetching EXCEPT ![b] = @ - landed + w.started]
    /\ fetching'[b] <= MaxFetch
    /\ retryTimers' = [retryTimers EXCEPT ![b] = @ + w.timers]
    /\ retryTimers'[b] <= MaxFetch
    /\ signal' = [Quiet EXCEPT !.gap = w.gap, !.update = w.update]

\* handleDepthUpdate(data) up to its await, or to its end when there is none
handleDepthUpdate(data) ==
    IF bufferOf = 0
    THEN \* first delta of the symbol: a new buffer, and the snapshot is requested
         /\ made < MaxBuf
         /\ made' = made + 1
         /\ bufferOf' = made + 1
         /\ buffers' = [buffers EXCEPT ![made + 1] = NewBuffer]
         /\ firstDelta' = [firstDelta EXCEPT ![made + 1] = data]
         /\ signal' = Quiet
         /\ UNCHANGED <<bookState, fetching, retryTimers>>
    ELSE IF ~buffers[bufferOf].isInitialized
    THEN /\ buffers' = [buffers EXCEPT ![bufferOf].events = Append(@, data)]
         /\ signal' = Quiet
         /\ UNCHANGED <<bookState, bufferOf, made, firstDelta, fetching, retryTimers>>
    ELSE /\ Commit(applyDepthUpdate(Work(bookState, buffers[bufferOf]), data),
                   bufferOf, 0)
         /\ UNCHANGED <<bufferOf, made, firstDelta>>

\* a depthUpdate message arrives on the open WebSocket
DepthUpdate ==
    /\ wsOpen
    /\ \E k \in 1..2 :
         /\ delivered + k <= MaxId
         /\ delivered' = delivered + k
         /\ handleDepthUpdate([U |-> delivered + 1, u |-> delivered + k])
    /\ emitOrderBookUpdate(signal'.update)
    /\ UNCHANGED <<tradeVars, sideVars, clock, detVars, connVars, closes, drops>>

\* a depthUpdate message never reaches the adapter
DeltaLost ==
    /\ wsOpen
    /\ drops < MaxDrop
    /\ \E k \in 1..2 :
         /\ delivered + k <= MaxId
         /\ delivered' = delivered + k
    /\ drops' = drops + 1
    /\ signal' = Quiet
    /\ UNCHANGED <<tradeVars, sideVars, throttleVars, detVars, connVars, closes, bookState, bufferOf, made, buffers,
                   firstDelta, fetching, retryTimers>>

\* the REST snapshot arrives: initializeOrderBook runs to its end, and with it
\* the handleDepthUpdate call that awaited it
SnapshotArrives(b) ==
    /\ \E id \in SnapshotIds :
         \/ /\ firstDelta[b] # NoDelta
            /\ Commit(handleDepthUpdateResumes(
                          initializeOrderBook(bookState, buffers[b], id),
                          firstDelta[b]), b, 0)
            /\ firstDelta' = [firstDelta EXCEPT ![b] = NoDelta]
         \/ /\ fetching[b] > 0
            /\ Commit(initializeOrderBook(bookState, buffers[b], id), b, 1)
            /\ UNCHANGED firstDelta
    /\ emitOrderBookUpdate(signal'.update)
    /\ UNCHANGED <<tradeVars, sideVars, clock, detVars, connVars, delivered, closes, drops, bufferOf, made>>

\* the REST request fails
SnapshotFails(b) ==
    /\ \/ /\ firstDelta[b] # NoDelta
          /\ Commit(handleDepthUpdateResumes(initializeFailed(bookState, buffers[b]),
                                             firstDelta[b]), b, 0)
          /\ firstDelta' = [firstDelta EXCEPT ![b] = NoDelta]
       \/ /\ fetching[b] > 0
          /\ Commit(initializeFailed(bookState, buffers[b]), b, 1)
          /\ UNCHANGED firstDelta
    /\ UNCHANGED <<tradeVars, sideVars, throttleVars, detVars, connVars, delivered, closes, drops, bufferOf, made>>

\* setTimeout(() => this.initializeOrderBook(symbol, buffer), ...) fires
RetryFires(b) ==
    /\ retryTimers[b] > 0
    /\ fetching[b] < MaxFetch
    /\ retryTimers' = [retryTimers EXCEPT ![b] = @ - 1]
    /\ fetching' = [fetching EXCEPT ![b] = @ + 1]
    /\ signal' = Quiet
    /\ UNCHANGED <<tradeVars, sideVars, throttleVars, detVars, connVars, delivered, closes, drops, bookState, bufferOf,
                   made, buffers, firstDelta>>

\* ---------------------------------------------- the WebSocket connection
\* createWSConnection(symbols): this.ws = new WebSocket(...), listeners attached
createWSConnection ==
    /\ Created < MaxSock
    /\ ws' = Created + 1
    /\ sockets' = [sockets EXCEPT ![Created + 1] =
                       [state |-> "connecting", listening |-> TRUE]]

\* connectWebSockets(symbols), called by ExchangeManager.createWebSockets
connectWebSockets ==
    /\ phase # "running"
    /\ phase' = "running"
    /\ IF isConnected THEN UNCHANGED <<ws, sockets>> ELSE createWSConnection
    /\ streak' = 0
    /\ signal' = Quiet
    /\ UNCHANGED <<tradeVars, sideVars, throttleVars, detVars, isConnected, reconnectAttempts, reconnectTimers,
                   delivered, closes, drops, bookState, bufferOf, made, buffers,
                   firstDelta, fetching, retryTimers>>

\* ws.on('open') of socket s
onOpen(s) ==
    /\ sockets[s].state = "connecting"
    /\ sockets' = [sockets EXCEPT ![s].state = "open"]
    /\ IF sockets[s].listening
       THEN /\ isConnected' = TRUE
            /\ reconnectAttempts' = 0
            /\ streak' = 0
       ELSE UNCHANGED <<isConnected, reconnectAttempts, streak>>
    /\ signal' = Quiet
    /\ UNCHANGED <<tradeVars, sideVars, throttleVars, detVars, ws, reconnectTimers, phase, closes, drops, bookState,
                   bufferOf, made, buffers, firstDelta, fetching, retryTimers>>

\* scheduleReconnect(symbols)
scheduleReconnect ==
    /\ reconnectAttempts' = reconnectAttempts + 1
    /\ reconnectTimers' =
           Append(reconnectTimers,
                  [delay |-> reconnectDelay * Pow2(reconnectAttempts' - 1),
                   nth |-> streak + Len(reconnectTimers) + 1])

\* ws.on('close') of socket s: the connection failed, timed out (terminate) or
\* was closed by the venue.  Reconnect or give up, orderBookInvalidate for
\* every replica, then clearState
onClose(s) ==
    /\ sockets[s].state \in {"connecting", "open"}
    /\ sockets' = [sockets EXCEPT ![s].state = "closed"]
    /\ IF sockets[s].listening
       THEN /\ isConnected' = FALSE
            /\ IF reconnectAttempts < maxReconnectAttempts
               THEN scheduleReconnect
               ELSE UNCHANGED <<reconnectAttempts, reconnectTimers>>
            /\ signal' = [Quiet EXCEPT
                             !.scheduled = reconnectAttempts < maxReconnectAttempts,
                             !.lost = ~(reconnectAttempts < maxReconnectAttempts),
                             !.atCap = streak >= maxReconnectAttempts,
                             !.invalidate = bookState # NoState]
            /\ bookState' = NoState
            /\ bufferOf' = 0
            /\ lastEmit' = 0
       ELSE /\ signal' = Quiet
            /\ UNCHANGED <<isConnected, reconnectAttempts, reconnectTimers,
                           bookState, bufferOf, lastEmit>>
    /\ UNCHANGED <<tradeVars, sideVars, clock, published, detVars, ws, phase, streak, delivered, drops, made, buffers,
                   firstDelta, fetching, retryTimers>>

\* the timer of scheduleReconnect fires: createWSConnection(symbols)
ReconnectFires ==
    /\ \E i \in 1..Len(reconnectTimers) :
         reconnectTimers' = SubSeq(reconnectTimers, 1, i - 1)
                                \o SubSeq(reconnectTimers, i + 1, Len(reconnectTimers))
    /\ createWSConnection
    /\ streak' = streak + 1
    /\ signal' = Quiet
    /\ UNCHANGED <<tradeVars, sideVars, throttleVars, detVars, isConnected, reconnectAttempts, phase, delivered,
                   closes, drops, bookState, bufferOf, made, buffers, firstDelta,
                   fetching, retryTimers>>

\* disconnect(), called by ExchangeManager.cleanup
disconnect ==
    /\ phase = "running"
    /\ phase' = "stopped"
    /\ isConnected' = FALSE
    /\ reconnectAttempts' = 0
    /\ IF ws # 0
       THEN sockets' = [sockets EXCEPT ![ws] =
                [state |-> IF @.state = "open" THEN "closed" ELSE @.state,
                 listening |-> FALSE]]
       ELSE UNCHANGED sockets
    /\ ws' = 0
    /\ signal' = Quiet
    /\ UNCHANGED <<tradeVars, sideVars, throttleVars, detVars, reconnectTimers, streak, delivered, closes, drops,
                   bookState, bufferOf, made, buffers, firstDelta, fetching,
                   retryTimers>>

\* a ticker message arrives on socket s: handleMessage, emitPriceUpdate
PriceTick(s) ==
    /\ Receiving(s)
    /\ signal' = [Quiet EXCEPT !.tick = TRUE]
    /\ UNCHANGED <<tradeVars, sideVars, throttleVars, detVars, connVars, delivered, closes, drops, bookState,
                   bufferOf, made, buffers, firstDelta, fetching, retryTimers>>

Open(s) == onOpen(s) /\ UNCHANGED delivered

SocketCloses(s) == onClose(s) /\ UNCHANGED closes

\* the socket of the depth stream closes
Close ==
    /\ closes < MaxClose
    /\ closes' = closes + 1
    /\ \E s \in Sockets : onClose(s)

\* the socket opens; the stream starts where the venue is by then
Reopen ==
    /\ \E s \in Sockets : onOpen(s)
    /\ \E id \in delivered..MaxId : delivered' = id

InitFeed ==
    /\ Init
    /\ free = [k \in Keys |-> MaxFree]
    /\ typeEnabled = [k \in Kinds |-> TRUE]

NextBook ==
    \/ DepthUpdate
    \/ DeltaLost
    \/ \E b \in 1..MaxBuf : SnapshotArrives(b)
    \/ \E b \in 1..MaxBuf : SnapshotFails(b)
    \/ \E b \in 1..MaxBuf : RetryFires(b)
    \/ connectWebSockets
    \/ Close
    \/ ReconnectFires
    \/ Reopen

\* The depth replica of one symbol under any timing of the stream, the REST
\* snapshots, their failures and retries, a lost delta and a reconnect
SpecBook == InitFeed /\ [][NextBook]_vars

NextStream ==
    \/ connectWebSockets
    \/ Reopen
    \/ DepthUpdate
    \/ DeltaLost
    \/ \E b \in 1..MaxBuf : SnapshotArrives(b)
    \/ \E b \in 1..MaxBuf : SnapshotFails(b)
    \/ \E b \in 1..MaxBuf : RetryFires(b)

\* The depth replica over a socket that stays open
SpecStream == InitFeed /\ [][NextStream]_vars

\* SpecStream where deltas keep arriving, timers fire, and a snapshot request
\* that keeps being made eventually succeeds
FairSpecStream ==
    /\ SpecStream
    /\ WF_vars(DepthUpdate)
    /\ \A b \in 1..MaxBuf : WF_vars(RetryFires(b)) /\ SF_vars(SnapshotArrives(b))

\* time passes on the adapter's clock
ClockTick ==
    /\ clock < Epoch + MaxClock * ClockMs
    /\ clock' = clock + ClockMs
    /\ signal' = Quiet
    /\ UNCHANGED <<tradeVars, sideVars, detVars, connVars, delivered, closes, drops, bookState,
                   bufferOf, made, buffers, firstDelta, fetching, retryTimers,
                   lastEmit, published>>

NextThrottle ==
    \/ DepthUpdate
    \/ \E b \in 1..MaxBuf : SnapshotArrives(b)
    \/ \E b \in 1..MaxBuf : SnapshotFails(b)
    \/ \E b \in 1..MaxBuf : RetryFires(b)
    \/ connectWebSockets
    \/ Close
    \/ Reopen
    \/ ClockTick

\* The depth replica and the throttle of its publications while the clock
\* advances by less than reconnectDelay: the stream, the REST snapshots and a
\* close of the socket, no reconnect timer firing yet
SpecThrottle == InitFeed /\ [][NextThrottle]_vars

NextConn ==
    \/ connectWebSockets
    \/ \E s \in Sockets : Open(s)
    \/ \E s \in Sockets : SocketCloses(s)
    \/ ReconnectFires
    \/ disconnect
    \/ \E s \in Sockets : PriceTick(s)

\* The connection of one adapter from construction on, under any timing of
\* opens, closes, reconnect timers, disconnect and restart
SpecConn == InitFeed /\ [][NextConn]_vars

\* ------------------------------------------------ the cross-venue detector
\* what the ticker of a venue can carry: price, and bid and ask when given
Tickers ==
    {[price |-> 10000, bid |-> 9990, ask |-> 10010],
     [price |-> 10000, bid |-> 0, ask |-> 0],
     [price |-> 10300, bid |-> 0, ask |-> 0]}

\* the replica states a venue's adapter can publish, around price p: a book
\* with two levels a side, a thin one, and a crossed one (best bid above best
\* ask)
BookStates(p) ==
    {[bids |-> {<<p - 10, 1000>>, <<p - 20, 19000>>},
      asks |-> {<<p + 10, 1000>>, <<p + 20, 19000>>}],
     [bids |-> {<<p - 10, 5000>>},
      asks |-> {<<p + 10, 5000>>}],
     [bids |-> {<<p + 10, 1000>>, <<p - 20, 19000>>},
      asks |-> {<<p - 10, 1000>>, <<p + 20, 19000>>}]}

\* the price a venue's market is at
BookPrice(x) == IF x = "binance" THEN 10000 ELSE 10300

\* opportunities.forEach(...) of checkArbitrageOpportunities: the registry
\* and the events emitted
RECURSIVE ForEach(_, _, _)
ForEach(list, registry, emitted) ==
    IF list = <<>> THEN [registry |-> registry, emitted |-> emitted]
    ELSE IF isOpportunityValid(Head(list))
    THEN ForEach(Tail(list), addOpportunity(registry, Head(list)),
                 Append(emitted, Head(list)))
    ELSE ForEach(Tail(list), registry, emitted)

\* handlePriceUpdate(priceData) with checkArbitrageOpportunities(symbol)
handlePriceUpdate(x, ticker) ==
    /\ Cardinality(UsedIds(opportunities)) + 2 <= MaxOpps
    /\ prices' = [prices EXCEPT ![x] =
                     [price |-> ticker.price, bid |-> ticker.bid, ask |-> ticker.ask,
                      timestamp |-> now * TickMs]]
    /\ IF \E y \in Exchanges : prices'[y] = NoPrice
       THEN \* relevantPrices.length < 2
            /\ candidates' = <<>>
            /\ found' = <<>>
            /\ UNCHANGED opportunities
       ELSE LET id1 == FreshId(UsedIds(opportunities))
                id2 == FreshId(UsedIds(opportunities) \cup {id1})
                opportunity1 == calculateOpportunity(prices', "binance", "bybit", id1)
                opportunity2 == calculateOpportunity(prices', "bybit", "binance", id2)
                list == SelectSeq(<<opportunity1, opportunity2>>,
                                  LAMBDA o : o # NoArb)
                done == ForEach(list, opportunities, <<>>)
            IN  /\ candidates' = list
                /\ found' = done.emitted
                /\ opportunities' = done.registry
    /\ UNCHANGED <<tradeVars, sideVars, throttleVars, bookVars, connVars, now, orderBooks>>

\* handleOrderBookUpdate(data): the adapter published stateToOrderBook(state)
handleOrderBookUpdate(x, state) ==
    /\ orderBooks' = [orderBooks EXCEPT ![x] = stateToOrderBook(state, now * TickMs)]
    /\ candidates' = <<>>
    /\ found' = <<>>
    /\ UNCHANGED <<tradeVars, sideVars, throttleVars, bookVars, connVars, now, prices, opportunities>>

\* handleOrderBookInvalidated(data)
handleOrderBookInvalidated(x) ==
    /\ orderBooks[x].present
    /\ orderBooks' = [orderBooks EXCEPT ![x] = NoBook]
    /\ candidates' = <<>>
    /\ found' = <<>>
    /\ UNCHANGED <<tradeVars, sideVars, throttleVars, bookVars, connVars, now, prices, opportunities>>

\* time passes between two messages
Tick ==
    /\ now < MaxNow
    /\ now' = now + 1
    /\ candidates' = <<>>
    /\ found' = <<>>
    /\ UNCHANGED <<tradeVars, sideVars, throttleVars, bookVars, connVars, prices, orderBooks, opportunities>>

NextDetect ==
    \/ \E x \in Exchanges, ticker \in Tickers : handlePriceUpdate(x, ticker)
    \/ \E x \in Exchanges :
         \E state \in BookStates(BookPrice(x)) : handleOrderBookUpdate(x, state)
    \/ \E x \in Exchanges : handleOrderBookInvalidated(x)
    \/ Tick

\* The detector under any sequence of price ticks, book updates, book
\* invalidations and clock readings
SpecDetect == InitFeed /\ [][NextDetect]_vars

\* the feeds are quiet for longer than the registry keeps an entry
IdleTicks == fiveMinutes \div TickMs + 1

Idle ==
    /\ now < MaxNow
    /\ now' = now + IdleTicks
    /\ candidates' = <<>>
    /\ found' = <<>>
    /\ UNCHANGED <<tradeVars, sideVars, throttleVars, bookVars, connVars, prices, orderBooks, opportunities>>

NextExpiry ==
    \/ \E x \in Exchanges, ticker \in Tickers : handlePriceUpdate(x, ticker)
    \/ \E x \in Exchanges :
         \E state \in BookStates(BookPrice(x)) : handleOrderBookUpdate(x, state)
    \/ \E x \in Exchanges : handleOrderBookInvalidated(x)
    \/ Idle

\* The detector and its registry across a pause of more than five minutes
SpecExpiry == InitFeed /\ [][NextExpiry]_vars

\* ------------------------------------------------------ the depth walk

\* one side of a book, best level first: asks by rising, bids by falling price
WalkSides ==
    {<<>>,
     <<<<10010, 1000>>>>,
     <<<<10010, 1000>>, <<10020, 2000>>>>,
     <<<<9990, 1000>>, <<9980, 2000>>>>,
     <<<<10010, 1000>>, <<10020, 1000>>, <<10040, 1000>>>>}
WalkAmounts == {500, 1000, 1500, 3000, 3001}
WalkPrices == {10000, 10010}

\* calculateSlippage(orders, amount, marketPrice) as calculateBothSlippages
\* calls it for one side
walkDepth(side, amount, marketPrice) ==
    /\ walk' = [op |-> "walked", orders |-> side, amount |-> amount,
                marketPrice |-> marketPrice,
                result |-> calculateSlippage(side, amount, marketPrice)]
    /\ UNCHANGED <<tradeVars, feedVars, logVars, triVars>>

\* the books of the walk: the two-level book around the venue's price and,
\* for binance, a deep book of a market at a tenth of that price
WalkBookStates(x) ==
    {[bids |-> {<<BookPrice(x) - 10, 1000>>, <<BookPrice(x) - 20, 19000>>},
      asks |-> {<<BookPrice(x) + 10, 1000>>, <<BookPrice(x) + 20, 19000>>}]}
    \cup (IF x = "binance"
          THEN {[bids |-> {<<990, 208000>>}, asks |-> {<<1010, 208000>>}]}
          ELSE {})
WalkTickers ==
    {[price |-> 10000, bid |-> 0, ask |-> 0],
     [price |-> 1000, bid |-> 0, ask |-> 0],
     [price |-> 10300, bid |-> 0, ask |-> 0]}

NextWalk ==
    \/ \E side \in WalkSides, amount \in WalkAmounts, marketPrice \in WalkPrices :
         walkDepth(side, amount, marketPrice)
    \/ \E x \in Exchanges, ticker \in WalkTickers : handlePriceUpdate(x, ticker)
    \/ \E x \in Exchanges :
         \E state \in WalkBookStates(x) : handleOrderBookUpdate(x, state)

\* The depth walk over sides of up to three levels, and the detector over
\* books that the trade amount does and does not exhaust
SpecWalk == InitFeed /\ [][NextWalk]_vars

\* ------------------------------------------ the triangular registry

\* checkTriangularPath(path): the prices are fresh and calculateOpportunity
\* gives an opportunity of the given profit; passes: it is valid and reaches
\* minProfitPercent and minConfidence
checkTriangularPath(path, profit, passes) ==
    LET opportunity == [present |-> TRUE, profitPercent |-> profit,
                        timestamp |-> triNow * TriTickMs]
    IN  /\ triOpportunities' =
              IF passes THEN addTriangularOpportunity(triOpportunities, path, opportunity)
              ELSE triOpportunities
        /\ triLast' = [op |-> IF passes THEN "emitted" ELSE "dropped", path |-> path,
                       opportunity |-> opportunity, existing |-> triOpportunities[path],
                       stored |-> triOpportunities'[path] = opportunity]
        /\ UNCHANGED <<tradeVars, feedVars, logVars, auxVars, triNow, triCleanupAt>>

\* getOpportunities() (GET /triangular): cleanupStaleOpportunities first
getTriangularOpportunities ==
    /\ triOpportunities' = cleanupStaleOpportunities(triOpportunities, triNow * TriTickMs)
    /\ triOpportunities' # triOpportunities
    /\ triLast' = NoTriCheck
    /\ UNCHANGED <<tradeVars, feedVars, logVars, auxVars, triNow, triCleanupAt>>

\* the setInterval callback of startCleanupInterval, every 10 s
CleanupInterval ==
    /\ triNow * TriTickMs >= triCleanupAt
    /\ triOpportunities' = cleanupStaleOpportunities(triOpportunities, triNow * TriTickMs)
    /\ triCleanupAt' = triCleanupAt + cleanupInterval
    /\ triLast' = NoTriCheck
    /\ UNCHANGED <<tradeVars, feedVars, logVars, auxVars, triNow>>

\* time passes; a timer that is due fires first
TriTick ==
    /\ triNow < MaxTriNow
    /\ triNow * TriTickMs < triCleanupAt
    /\ triNow' = triNow + 1
    /\ triLast' = NoTriCheck
    /\ UNCHANGED <<tradeVars, feedVars, logVars, auxVars, triOpportunities, triCleanupAt>>

NextTri ==
    \/ \E path \in PathKeys, profit \in TriProfits, passes \in BOOLEAN :
         checkTriangularPath(path, profit, passes)
    \/ getTriangularOpportunities
    \/ CleanupInterval
    \/ TriTick

\* The registry of TriangularBybitService under path checks, reads of the
\* registry, the cleanup timer and the clock
SpecTri == InitFeed /\ [][NextTri]_vars

\* =============================================================== claims

\* the attempt of task t has been in status st
InHist(t, st) == \E i \in DOMAIN hist[t] : hist[t][i] = st
\* execute() was entered for task t
Attempted(t) == hist[t] # <<>>
\* execute() and the handler have finished for task t
Finished(t) == pc[t] = "done" /\ Attempted(t)
\* approved by the risk check and not yet in a terminal status
InFlight(t) == status[t] \in {"approved", "executing", "monitoring"}
\* the orders of the two legs of a cross-exchange trade
CrossOrders(t) == {Order(t, 1), Order(t, 2)}
\* no order of the trade is still being placed or polled
LegsSettled(t) == \A l \in Legs : leg[t][l] \notin {"placing", "waiting"}

\* C1: a cross-exchange trade that locked both balances and whose two market
\* orders were both reported closed by the venue (at the immediate poll or at
\* a later one) went through MONITORING, ended COMPLETED and was recorded
\* once in the risk ledger.
C1_FilledTradeCompletes ==
    \A t \in Tasks :
        (/\ IsCross(t)
         /\ status[t] \in Terminal
         /\ InHist(t, "executing")
         /\ CrossOrders(t) \subseteq completedOrders)
        => (/\ status[t] = "completed"
            /\ InHist(t, "monitoring")
            /\ recorded[t] = 1)

\* C4: for each kind, the number of trades of that kind that are in flight
\* (approved and not yet terminal) never exceeds maxConcurrentTrades.
C4_ConcurrencyCap ==
    \A k \in Kinds :
        Cardinality({t \in Tasks : opp[t].kind = k /\ InFlight(t)}) <= maxConcurrentTrades

\* C7: a cross-exchange trade whose two orders were submitted and of which
\* exactly one leg filled while the other failed or timed out ends PARTIAL,
\* and its record keeps the order of the filled leg.
C7_OneLegFilledIsPartial ==
    \A t \in Tasks :
        (/\ IsCross(t)
         /\ status[t] \in Terminal
         /\ InHist(t, "monitoring")
         /\ LegsSettled(t)
         /\ Cardinality(CrossOrders(t) \cap completedOrders) = 1)
        => (/\ status[t] = "partial"
            /\ \A l \in {1, 2} : Order(t, l) \in completedOrders => l \in orders[t])

\* the statuses of a trade in the order the contract gives them
HappyPath == <<"validating", "approved", "executing", "monitoring", "completed">>

\* C8: COMPLETED is reached only through VALIDATING, APPROVED, EXECUTING and
\* MONITORING in that order; a terminal status is the last status the attempt
\* takes; and when execute() has finished it has returned an attempt whose
\* status is terminal.
C8_StatusProgression ==
    \A t \in Tasks :
        /\ status[t] = "completed" => hist[t] = HappyPath
        /\ \A i \in DOMAIN hist[t] : hist[t][i] \in Terminal => i = Len(hist[t])
        /\ Finished(t) => (status[t] \in Terminal /\ ~escaped[t])

\* C9: after execute() has finished, whatever the terminal status and
\* whichever step failed, the ledger holds no lock with the trade's id.
C9_LocksReleased ==
    \A t \in Tasks : Finished(t) => \A k \in Keys : t \notin LocksOf(locks, k)

\* a trade acquired its locks, ran and finished
C9_Witness ==
    \E t \in Tasks : Finished(t) /\ InHist(t, "executing") /\ status[t] = "failed"

\* C10: no exception escapes a trade task: when the task has finished,
\* execute() has returned an attempt with a terminal status, with an error
\* string when it did not complete, and the attempt is in the journal.
C10_NoEscape ==
    \A t \in Tasks :
        Finished(t) =>
            /\ ~escaped[t]
            /\ status[t] \in Terminal
            /\ status[t] # "completed" => err[t] # "none"
            /\ \E i \in DOMAIN journal :
                 journal[i] = [id |-> t, status |-> status[t], error |-> err[t]]

\* C2: for every (venue, currency) the sum of the amounts of the active locks
\* is at most the cached free balance.
C2_LocksWithinFree ==
    \A k \in Keys :
        LockedSum(lockAmt, k) <= (IF getBalance(free, k) = NoBalance THEN 0 ELSE free[k])

\* C3: lockBalance succeeds if and only if available >= amount, available
\* being the free balance minus the sum of the amounts of the active locks of
\* the key; a rejected call records no lock.
C3_LockIffAvailable ==
    lastCall.op = "lock" =>
        /\ lastCall.result <=> (lastCall.available >= lastCall.amount)
        /\ ~lastCall.result => ~lastCall.recorded

\* an evaluation (checkOpportunity) of task t returns in this step
EvalReturns(t) == riskCheck'[t] # riskCheck[t] /\ riskCheck'[t].phase = "returned"

\* C5: while the emergency stop flag is set no evaluation returns
\* approved = true, and a trade that is in flight while the flag is set still
\* reaches a terminal status.
C5_EmergencyStopBlocks ==
    /\ [][\A t \in Tasks :
             (EvalReturns(t) /\ riskCheck'[t].approved) => (~emergencyStop /\ ~emergencyStop')]_vars
    /\ \A t \in Tasks : (emergencyStop /\ InFlight(t)) ~> (status[t] \in Terminal)

\* the flag is set while one trade is in flight and the evaluation of another
\* opportunity has returned 'Emergency stop is active'
C5_Witness ==
    \E t, u \in Tasks :
        /\ emergencyStop
        /\ InFlight(t)
        /\ riskCheck[u].phase = "returned"
        /\ ReasonEmergency \in riskCheck[u].reasons

\* C6: once the losses recorded for the day have reached maxDailyLoss, the
\* very next evaluation is a rejection whose reasons state that the emergency
\* stop is active.
C6_NextEvaluateSaysEmergency ==
    [][\A t \in Tasks :
          (EvalReturns(t) /\ dailyLoss' >= maxDailyLoss)
          => (~riskCheck'[t].approved /\ ReasonEmergency \in riskCheck'[t].reasons)]_vars

\* C19: the emergency stop is sticky: once set, no evaluation, recordTrade or
\* date change (with its daily counter reset) clears the flag; the only step
\* that takes it from set to clear is the operator's disableEmergencyStop
C19_StopIsSticky ==
    [][(emergencyStop /\ ~emergencyStop') => disableEmergencyStop]_vars

\* the flag is set, the date has changed and an evaluation has reset the daily
\* counters and returned 'Emergency stop is active'
C19_Witness ==
    /\ emergencyStop
    /\ today > 0
    /\ lastResetDate = today
    /\ dailyLoss = 0
    /\ \E t \in Tasks : /\ riskCheck[t].phase = "returned"
                        /\ riskCheck[t].reasons = {ReasonEmergency}

\* C20: a breach of the daily loss limit is surfaced once: between two
\* operator resets the emergencyStop event is emitted at most one time
C20_StopSurfacedOnce == stopEvents <= 1


\* the replica in orderBookStates is the snapshot it was built from with the
\* deltas applied to it chained without a gap
Chained(bk) ==
    /\ bk.lastUpdateId = IF bk.applied = <<>> THEN bk.snapshotId
                         ELSE bk.applied[Len(bk.applied)].u
    /\ \A i \in 1..Len(bk.applied) :
         LET prev == IF i = 1 THEN bk.snapshotId ELSE bk.applied[i - 1].u
         IN  /\ bk.applied[i].U <= prev + 1
             /\ bk.applied[i].u > prev
             /\ i > 1 => bk.applied[i].U = prev + 1

\* a snapshot request or a retry timer is pending
Resnapshot == \E b \in 1..MaxBuf :
    fetching[b] > 0 \/ retryTimers[b] > 0 \/ firstDelta[b] # NoDelta

\* C11: the update ids of the deltas applied to a replica are monotone and
\* without gaps: the first delta applied after the snapshot straddles
\* snapshot.lastUpdateId + 1, every later one starts at the previous one's
\* last id + 1, the replica's lastUpdateId grows with each, and a detected gap
\* leaves a re-snapshot pending
C11_DeltasChain ==
    /\ bookState # NoState => Chained(bookState)
    /\ signal.gap => Resnapshot

\* C12: when applyDepthUpdate finds an update-id gap on an initialized replica,
\* the replica is discarded, a re-snapshot is requested and orderBookInvalidate
\* is emitted for the symbol
C12_GapInvalidates ==
    signal.gap => (bookState = NoState /\ Resnapshot /\ signal.invalidate)

Max(S) == CHOOSE x \in S : \A y \in S : y <= x
Min(S) == CHOOSE x \in S : \A y \in S : x <= y

Uncrossed(bk) ==
    /\ bk.bids \cap bk.asks = {}
    /\ (bk.bids # {} /\ bk.asks # {}) => Max(bk.bids) <= Min(bk.asks)

\* C13: after each applied snapshot or delta the highest bid of the replica is
\* at most its lowest ask and no price is on both sides
C13_BookUncrossed == bookState # NoState => Uncrossed(bookState)

\* C17: the reconnect attempts made in a row without an open in between never
\* exceed maxReconnectAttempts, the k-th of them is scheduled with a delay of
\* reconnectDelay * 2^(k-1), and a close handled when the cap of attempts has
\* been made emits maxReconnectAttemptsReached and schedules no reconnect.
C17_ReconnectCapped ==
    /\ streak <= maxReconnectAttempts
    /\ \A i \in 1..Len(reconnectTimers) :
         reconnectTimers[i].delay = reconnectDelay * Pow2(reconnectTimers[i].nth - 1)
    /\ signal.atCap => (signal.lost /\ ~signal.scheduled)

\* C18: after disconnect and until connectWebSockets is called again the
\* adapter is not connected, holds no connecting or open socket with its
\* listeners attached (no reconnect timer has opened a new connection) and
\* emits no price tick.
C18_StoppedStaysStopped ==
    phase = "stopped" =>
        /\ ~isConnected
        /\ ws = 0
        /\ \A s \in Sockets :
             sockets[s].listening => sockets[s].state \notin {"connecting", "open"}
        /\ ~signal.tick

\* best bid above best ask
CrossedBook(book) ==
    /\ book.present
    /\ book.bids # <<>>
    /\ book.asks # <<>>
    /\ book.bids[1][1] > book.asks[1][1]

\* C14: when the book of the buy venue or of the sell venue is crossed at the
\* time of detection, no opportunity is emitted for the pair.
C14_CrossedBookSkipped ==
    \A i \in 1..Len(found) :
        /\ ~CrossedBook(orderBooks[found[i].buyExchange])
        /\ ~CrossedBook(orderBooks[found[i].sellExchange])

Qualified(o) ==
    /\ o.confidence >= minConfidence
    /\ o.liquidityScore >= minLiquidityScore
    /\ o.netProfitAfterSlippage > 0

\* C15: every opportunity emitted as opportunityFound or held in the registry
\* has confidence >= 60, liquidityScore >= 50 and a net profit above zero; the
\* result of the simple estimator (confidence 50) is never emitted.
C15_EmittedQualified ==
    /\ \A i \in 1..Len(found) : Qualified(found[i])
    /\ \A k \in DOMAIN opportunities : Qualified(opportunities[k])

\* a simple estimate was computed and dropped while the registry holds an
\* opportunity that had been emitted
C15_Witness ==
    /\ DOMAIN opportunities # {}
    /\ found = <<>>
    /\ \E i \in 1..Len(candidates) : candidates[i].confidence = simpleScore

UniqueTriples(registry) ==
    \A j, k \in DOMAIN registry :
        (/\ registry[j].buyExchange = registry[k].buyExchange
         /\ registry[j].sellExchange = registry[k].sellExchange) => j = k

\* C16: the registry holds at most one opportunity per (symbol, buyExchange,
\* sellExchange), and an entry changes only to an opportunity of strictly
\* higher confidence; a newcomer of equal or lower confidence changes nothing.
C16_RegistryDedup ==
    [][/\ UniqueTriples(opportunities')
       /\ DOMAIN opportunities \subseteq DOMAIN opportunities'
       /\ \A k \in DOMAIN opportunities :
            opportunities'[k] # opportunities[k] =>
                opportunities'[k].confidence > opportunities[k].confidence]_vars

\* an entry has been replaced, and a later opportunity for the same triple was
\* emitted without entering the registry
C16_Witness ==
    /\ \E k \in DOMAIN opportunities : opportunities[k].id # k
    /\ found # <<>>
    /\ \A k \in DOMAIN opportunities : opportunities[k] # found[1]
    /\ \E k \in DOMAIN opportunities :
         /\ opportunities[k].buyExchange = found[1].buyExchange
         /\ opportunities[k].sellExchange = found[1].sellExchange

\* checkOpportunity is entered: a handler or execute() calls it
EvaluateStarts ==
    \E t \in Tasks : pc[t] \in {"idle", "x_pre"} /\ riskCheck'[t] # riskCheck[t]

\* C21: dailyTrades and dailyLoss are reset once per UTC date: the first
\* evaluation on a new date zeroes both and records the date, every evaluation
\* leaves the recorded date at the current one, and while the recorded date
\* stays the same neither counter goes down
C21_ResetOncePerDay ==
    [][/\ lastResetDate' # lastResetDate =>
            /\ EvaluateStarts
            /\ lastResetDate < today
            /\ lastResetDate' = today
            /\ dailyTrades' = 0
            /\ dailyLoss' = 0
       /\ EvaluateStarts => lastResetDate' = today
       /\ lastResetDate' = lastResetDate =>
            /\ dailyTrades' >= dailyTrades
            /\ dailyLoss' >= dailyLoss]_vars

\* the date has changed, the first evaluation of the new date has reset the
\* counters, and a trade recorded since then counts again
C21_Witness ==
    /\ today > 0
    /\ lastResetDate = today
    /\ dailyTrades > 0

\* the logTrade call that a line of the file comes from
LineIndex(line) == CHOOSE i \in DOMAIN journal : journal[i] = line

\* C22: journal writes go through one queue: at most one append is in progress,
\* the lines of the file are in the order of their logTrade calls, a line is
\* in the file once its write has succeeded, and the queue is never stuck: while
\* a logged trade is waiting, a write is in progress or the next one can start
C22_WritesSerialized ==
    /\ Cardinality(started \ settled) <= 1
    /\ \A a, b \in DOMAIN file :
         /\ \E i \in settled : journal[i] = file[a]
         /\ a < b => LineIndex(file[a]) < LineIndex(file[b])
    /\ \/ DOMAIN journal \subseteq started
       \/ started \ settled # {}
       \/ writeQueue(journal, started, settled) # {}

\* two trades were logged, the write of the first one failed and the line of
\* the second one has reached the file
C22_Witness ==
    /\ Len(journal) = 2
    /\ settled = {1, 2}
    /\ file = <<journal[2]>>

\* the journal lines of a trade attempt
LinesOf(t) == {i \in DOMAIN journal : journal[i].id = t}

\* C23: every status a trade attempt goes through is journaled: when the
\* handler has returned, the journal holds as many lines of the attempt as the
\* attempt has had statuses
C23_LinePerTransition ==
    \A t \in Tasks : pc[t] = "done" => Cardinality(LinesOf(t)) = Len(hist[t])

\* C27: the journal write of a trade attempt has completed before the handler
\* of the attempt returns: once the handler is done with an attempt that
\* execute() returned, the write of its journal line has settled
C27_JournalBeforeDone ==
    \A t \in Tasks :
        (pc[t] = "done" /\ LinesOf(t) # {}) => LinesOf(t) \subseteq settled

\* lockBalance(t, key, a) can be called by a trade without a lock on the key
\* and succeeds
CanLock(t, key, a) ==
    /\ t \notin LocksOf(locks, key)
    /\ hasAvailableBalance(free, locks, key, a)

\* C24: in every ledger state, for every trade t without a lock on a key and
\* every amount a whose lockBalance succeeds, lockBalance then unlockBalance
\* gives back the lock sets, the amounts held and the available amount of the
\* key, and another unlockBalance changes nothing
C24_LockUnlockRoundTrip ==
    \A t \in Tasks, key \in Keys, a \in Amounts :
        CanLock(t, key, a) =>
            LET lk1 == LocksAfterLock(free, locks, t, key, a)
                la1 == AmtAfterLock(free, locks, lockAmt, t, key, a)
                lk2 == LocksAfterUnlock(lk1, t, key)
                la2 == AmtAfterUnlock(lk1, la1, t, key)
            IN  /\ t \in LocksOf(lk1, key)
                /\ lk2 = locks
                /\ la2 = lockAmt
                /\ getAvailableAmount(free, lk2, key) = getAvailableAmount(free, locks, key)
                /\ Available(free, la2, key) = Available(free, lockAmt, key)
                /\ LocksAfterUnlock(lk2, t, key) = lk2
                /\ AmtAfterUnlock(lk2, la2, t, key) = la2

\* a trade has just released its lock on a key that another trade still
\* holds, and would be granted a lock on it again
C24_Witness ==
    /\ lastCall.op = "unlock"
    /\ LocksOf(locks, lastCall.key) # {}
    /\ \E a \in Amounts : CanLock(lastCall.tradeId, lastCall.key, a)

\* the trade has called incrementActiveTrades and has not reached a terminal
\* status
Counted(t) == status[t] \in {"executing", "monitoring"}

\* C25: for each kind, activeTrades[kind] is the number of trades of the kind
\* that have incremented the counter and have not terminated
C25_ActiveTradesExact ==
    \A k \in Kinds :
        activeTrades[k] = Cardinality({t \in Tasks : opp[t].kind = k /\ Counted(t)})

\* C26: the rollback of a trade whose order placement failed cancels only
\* orders that the same trade submitted
C26_RollbackOwnOrders ==
    \A t \in Tasks : \A o \in cancelSet[t] : \E l \in Legs : o = Order(t, l)

\* the venue has reported the order of leg l of trade t closed
Filled(t, l) == Order(t, l) \in completedOrders

\* C28: the legs of a triangular trade run one after the other: a leg is
\* submitted only when the leg before it has closed; a trade that has ended
\* with a leg that did not fill is FAILED and has submitted no later leg; a
\* trade that has ended with its three legs filled is COMPLETED
C28_LegsSequential ==
    \A t \in Tasks :
        (opp[t].kind = "triangular" /\ InHist(t, "executing")) =>
            /\ \A l \in {2, 3} : leg[t][l] # "none" => Filled(t, l - 1)
            /\ \A l \in Legs :
                 (status[t] \in Terminal /\ ~Filled(t, l)) =>
                     /\ status[t] = "failed"
                     /\ \A m \in Legs : m > l => leg[t][m] = "none"
            /\ (status[t] \in Terminal /\ \A l \in Legs : Filled(t, l)) =>
                     status[t] = "completed"

\* the detector holds a book of the venue that is at most orderBookMaxAge old
FreshBook(x) ==
    /\ orderBooks[x].present
    /\ now * TickMs - orderBooks[x].timestamp <= orderBookMaxAge

\* C29: an opportunity is emitted only when the detector holds a book of the
\* buy venue and a book of the sell venue and neither is older than 10 s at the
\* time of detection
C29_FreshBooksOnly ==
    \A i \in 1..Len(found) :
        /\ FreshBook(found[i].buyExchange)
        /\ FreshBook(found[i].sellExchange)

\* a price update met two books, one of them older than 10 s: the simple
\* estimate was computed and nothing was emitted
C29_Witness ==
    /\ \A x \in Exchanges : orderBooks[x].present
    /\ \E x \in Exchanges : ~FreshBook(x)
    /\ \E i \in 1..Len(candidates) : candidates[i].confidence = simpleScore
    /\ found = <<>>

\* the entry is older than five minutes
Expired(o) == o.timestamp < now * TickMs - fiveMinutes

\* C30: every insert into the registry, one that meets an entry for the same
\* triple included, collects the entries older than five minutes: after a
\* price update that emitted an opportunity the registry holds no such entry
C30_InsertCollects ==
    found # <<>> => \A k \in DOMAIN opportunities : ~Expired(opportunities[k])

\* C31: an opportunity announced by opportunityFound is in the registry under
\* its own id when it is announced, and every registry entry is keyed by the
\* id of the opportunity it holds
C31_AnnouncedStored ==
    /\ \A i \in 1..Len(found) :
         /\ found[i].id \in DOMAIN opportunities
         /\ opportunities[found[i].id] = found[i]
    /\ \A k \in DOMAIN opportunities : opportunities[k].id = k

\* C32: the triangular registry keeps the higher-profit opportunity of a path,
\* and a newcomer that was emitted is left out of the registry only when the
\* entry of its path has strictly higher profit and is at most 30 s old
C32_TriangularDedup ==
    (triLast.op = "emitted" /\ ~triLast.stored) =>
        /\ triLast.existing.present
        /\ triLast.existing.profitPercent > triLast.opportunity.profitPercent
        /\ triNow * TriTickMs - triLast.existing.timestamp <= triMaxAge

\* ---------------------------------------------------------------- C33
\* what the walk takes from level i: what is left of the amount after the
\* levels before it, at most the size of the level
Consumed(side, amount, i) ==
    MinOf(side[i][2], MaxOf(0, amount - SumVolume(SubSeq(side, 1, i - 1))))

RECURSIVE ConsumedCost(_, _, _)
ConsumedCost(side, amount, i) ==
    IF i = 0 THEN 0
    ELSE Consumed(side, amount, i) * side[i][1] + ConsumedCost(side, amount, i - 1)

WalkRight ==
    (walk.op = "walked" /\ walk.amount > 0) =>
        /\ walk.result.feasible = (SumVolume(walk.orders) >= walk.amount)
        /\ walk.result.feasible =>
             walk.result.effectivePrice =
                 ConsumedCost(walk.orders, walk.amount, Len(walk.orders)) \div walk.amount

\* the walk calculateOpportunity makes for one side of the pair (bx, sx)
OpportunityWalk(pr, bx, sx, buySide) ==
    LET liquidity == calculateAvailableLiquidity(orderBooks[bx], orderBooks[sx],
                                                 pr[bx], pr[sx])
        tradeAmount == calculateTradeParameters(liquidity, pr[bx].price).tradeAmount
    IN  IF buySide
        THEN calculateSlippage(orderBooks[bx].asks, tradeAmount, pr[bx].price)
        ELSE calculateSlippage(orderBooks[sx].bids, tradeAmount, pr[sx].price)

Infeasible(pr, bx, sx) ==
    /\ pr[bx] # NoPrice /\ pr[sx] # NoPrice
    /\ pr[sx].price > pr[bx].price
    /\ getValidOrderBooks(bx, sx)
    /\ \/ ~OpportunityWalk(pr, bx, sx, TRUE).feasible
       \/ ~OpportunityWalk(pr, bx, sx, FALSE).feasible

NoWalkNoOpportunity ==
    prices' # prices =>
        \A bx \in Exchanges : \A sx \in Exchanges \ {bx} :
            Infeasible(prices', bx, sx) =>
                /\ \A i \in 1..Len(candidates') :
                     ~(candidates'[i].buyExchange = bx /\ candidates'[i].sellExchange = sx)
                /\ \A i \in 1..Len(found') :
                     ~(found'[i].buyExchange = bx /\ found'[i].sellExchange = sx)

\* C33: a walk of a positive amount over levels ordered from the best price
\* inward takes the levels in order, is infeasible exactly when the sizes of
\* the levels add up to less than the amount, and otherwise gives as effective
\* price the average of the level prices weighted by what was taken from each
\* level; a price update that finds either walk of a pair infeasible yields no
\* opportunity for that pair
C33_DepthWalk == []WalkRight /\ [][NoWalkNoOpportunity]_vars

\* a walk through two levels into the third was made, and the detector holds
\* prices and books for which the sell side cannot take the trade amount
C33_Witness ==
    /\ walk.op = "walked"
    /\ Len(walk.orders) = 3
    /\ walk.amount > walk.orders[1][2] + walk.orders[2][2]
    /\ walk.result.feasible
    /\ Infeasible(prices, "binance", "bybit")
    /\ candidates = <<>>

\* ---------------------------------------------------------------- C34
\* C34: when the best level alone is at least as large as the amount, the
\* walk fills the whole amount at the price of that level and reports a
\* slippage of 0
C34_TopLevelNoSlippage ==
    (/\ walk.op = "walked"
     /\ walk.orders # <<>>
     /\ walk.orders[1][2] >= walk.amount) =>
        /\ walk.result.feasible
        /\ walk.result.effectivePrice = walk.orders[1][1]
        /\ walk.result.slippage = 0

\* ---------------------------------------------------------------- C35
\* C35: two publications of the book of one symbol are at least
\* updateThrottle apart, and a handler that calls emitOrderBookUpdate when
\* the last publication is at least updateThrottle old publishes
C35_ThrottledLatest ==
    /\ \A i \in 1..Len(published) : \A j \in 1..Len(published) :
         i < j => published[j] - published[i] >= updateThrottle
    /\ signal.update =>
         /\ published # <<>>
         /\ clock - published[Len(published)] < updateThrottle

\* ---------------------------------------------------------------- C36
\* initializeOrderBook calls of buffer b that are in flight (the first one,
\* awaited by handleDepthUpdate, and the later ones) or scheduled by a timer
PendingInit(b) ==
    (IF firstDelta[b] # NoDelta THEN 1 ELSE 0) + fetching[b] + retryTimers[b]

RECURSIVE PendingInits(_)
PendingInits(n) == IF n = 0 THEN 0 ELSE PendingInit(n) + PendingInits(n - 1)

\* the step replaced the replica by one built from a snapshot
SnapshotInstalled ==
    /\ bookState' # NoState
    /\ bookState' # bookState
    /\ ~(/\ bookState'.snapshotId = bookState.snapshotId
         /\ Len(bookState'.applied) > Len(bookState.applied)
         /\ SubSeq(bookState'.applied, 1, Len(bookState.applied)) = bookState.applied)

NoOlderSnapshot ==
    (bookState # NoState /\ SnapshotInstalled) =>
        bookState'.snapshotId >= bookState.lastUpdateId

\* C36: for the symbol at most one initializeOrderBook call is in flight or
\* scheduled at any time, and no step replaces a replica by one built from a
\* snapshot older than the state the replica had
C36_OneSnapshotFetch == [][PendingInits(MaxBuf)' <= 1 /\ NoOlderSnapshot]_vars

\* ---------------------------------------------------------------- C37
\* the buffer of the symbol is initialized, the replica is there, the last
\* step called emitOrderBookUpdate and no snapshot is pending
Recovered ==
    /\ bufferOf # 0
    /\ buffers[bufferOf].isInitialized
    /\ bookState # NoState
    /\ signal.update
    /\ ~Resnapshot

InHandler(t) == pc[t] \notin {"idle", "done"}

\* C38: no two handlers are at work on the same opportunity id, a handler
\* starts an evaluation only for an id that is not in the processing queue,
\* and the queue holds exactly the ids of the handlers at work, so an id
\* leaves it on every way out of the handler
C38_OneAttemptPerId ==
    /\ \A t \in Tasks : \A u \in Tasks \ {t} :
         (InHandler(t) /\ InHandler(u)) => opp[t].id # opp[u].id
    /\ processingQueue = {opp[t].id : t \in {u \in Tasks : InHandler(u)}}

\* one handler is at work on the triangular opportunity and the other one,
\* called with the configuration enabled and no cooldown set, has returned
\* without evaluating anything
C38_Witness ==
    /\ \E t \in Tasks : \E u \in Tasks \ {t} :
         /\ InHandler(t)
         /\ opp[t].id = OppT1.id
         /\ pc[u] = "done"
         /\ opp[u] = NoOpp
    /\ cooling = {}
    /\ enabled
    /\ \A k \in Kinds : typeEnabled[k]

\* ---------------------------------------------------------------- C39
\* strategy.execute() has been entered for the opportunity of task t
ExecuteStarted(t) == hist[t] # <<>>

\* C39: while no cooldown has expired (none does in Spec: the handlers are
\* followed for less than cooldownPeriod after the first of them starts), two
\* trade executions never start for the same cooldown key
C39_CooldownSpacing ==
    \A t \in Tasks : \A u \in Tasks \ {t} :
        (ExecuteStarted(t) /\ ExecuteStarted(u)) =>
            getCooldownKey(opp[t]) # getCooldownKey(opp[u])

\* ---------------------------------------------------------------- C40
\* the trades whose status becomes COMPLETED in the step
Completing == {t \in Tasks : status[t] # "completed" /\ status'[t] = "completed"}

\* checkDailyLimits saw a new UTC date and zeroed the day's counters
DailyReset == lastResetDate' # lastResetDate /\ dailyTrades' = 0 /\ dailyLoss' = 0

====
